---- MODULE Spec2Model ----
(***************************************************************************)
(* Model of the batched upload worker of src/TreeReciever/index.js         *)
(* (lines 520-1162): the queue processor parses and validates the message  *)
(* and probes the token; upload() downloads and extracts an archive,       *)
(* ensures the destination repository and publishes every collected file   *)
(* through the contents endpoint in batches of concurrent upserts.         *)
(*                                                                         *)
(* Spec is the whole job; EnsureSpec is createRepoIfNotExists called       *)
(* repeatedly with a log of its requests; ValidatorSpec is the intake on   *)
(* generated repository names; TreeSpec is the classifier, the stripper    *)
(* and the unwrapping on generated trees; CommitSpec is helloTree (lines   *)
(* 1483-1547); ScratchSpec is the scratch directory under jobs that run    *)
(* side by side; IntakeSpec is the HTTP endpoint (lines 119-378);          *)
(* SequentialSpec is uploadToGitHubAPI of src/unnamed/part_000;            *)
(* CallbackSpec is the OAuth callback endpoint (lines 393-518).            *)
(*                                                                         *)
(* Strings are sequences of one-character strings, so that template        *)
(* strings, String.includes and URL parsing are computed, not assumed.     *)
(* One action is one run of the event loop: a response (or timer) arrives  *)
(* and the continuation runs, with every promise reaction it triggers, up  *)
(* to the next await.  A request is in flight from the step that issues    *)
(* it to the step that handles its response; the remote store applies the  *)
(* request in that second step.                                            *)
(***************************************************************************)
EXTENDS Integers, Sequences, FiniteSets, TLC

(* ------------------------------ bounds -------------------------------- *)

\* BATCH_SIZE is 10 in the source (index.js:932).  The orchestrator is
\* parameterised by it; the model is explored with a reduced batch size so
\* that every interleaving of a batch's responses is enumerated.
BATCH_SIZE == 2

\* Largest number of files in the generated flat working trees.
MaxFiles == 3

\* Largest length of the generated repository names.
MaxNameLen == 3

\* Largest number of direct calls of createRepoIfNotExists in a row.
MaxEnsureCalls == 2

\* isBinaryFile samples the first 1024 bytes of a file (index.js:1379) and
\* the walk refuses a text of more than 1024 * 1024 characters
\* (index.js:1452).  Both limits are scaled; the generated files are sized
\* relative to them.
SAMPLE_BYTES == 2
MAX_CONTENT == 3

\* Largest number of entries of a generated directory.
MaxEntries == 2

\* Largest number of OAuth callbacks the host serves one after the other.
MaxLogins == 3

\* Largest number of commits another client pushes during a run of helloTree.
MaxPushes == 1

\* Largest number of upload() calls the host runs side by side, and the
\* last reading of the millisecond clock.
MaxJobs == 2
MaxClock == 3

\* The sweep removes entries older than oneHour, 60 * 60 * 1000 ms in the
\* source (index.js:980); the clock of the model counts in scaled units.
oneHour == 1

(* --------------------------- string helpers --------------------------- *)

\* String.prototype.includes
Includes(s, t) ==
  \E k \in 1..(Len(s) - Len(t) + 1) : SubSeq(s, k, k + Len(t) - 1) = t

\* index of the first position of s holding a character of cs, 0 if none
FirstOf(s, cs) ==
  IF \E k \in 1..Len(s) : s[k] \in cs
  THEN CHOOSE k \in 1..Len(s) : s[k] \in cs /\ \A j \in 1..(k-1) : s[j] \notin cs
  ELSE 0

RATE_LIMIT == <<"r","a","t","e"," ","l","i","m","i","t">>
SHA_WORD == <<"s","h","a">>

UPPER == <<"A","B","C","D","E","F","G","H","I","J","K","L","M",
           "N","O","P","Q","R","S","T","U","V","W","X","Y","Z">>
LOWER == <<"a","b","c","d","e","f","g","h","i","j","k","l","m",
           "n","o","p","q","r","s","t","u","v","w","x","y","z">>
DIGITS == {"0","1","2","3","4","5","6","7","8","9"}

\* String.prototype.toLowerCase
ToLower(s) ==
  [k \in 1..Len(s) |->
     IF \E j \in 1..Len(UPPER) : UPPER[j] = s[k]
     THEN LOWER[CHOOSE j \in 1..Len(UPPER) : UPPER[j] = s[k]]
     ELSE s[k]]

\* the characters String.prototype.trim removes that occur in the model
WHITESPACE == {" ", "\t", "\n"}

\* String.prototype.trim
Trim(s) ==
  IF \A k \in 1..Len(s) : s[k] \in WHITESPACE THEN <<>>
  ELSE LET first == CHOOSE k \in 1..Len(s) :
                      s[k] \notin WHITESPACE /\ \A j \in 1..(k - 1) : s[j] \in WHITESPACE
           last == CHOOSE k \in 1..Len(s) :
                     s[k] \notin WHITESPACE /\ \A j \in (k + 1)..Len(s) : s[j] \in WHITESPACE
       IN SubSeq(s, first, last)

(* ----------------------- repository name validation ------------------- *)

NAME_REQUIRED == <<"R","e","p","o","s","i","t","o","r","y"," ","n","a","m","e"," ","i","s"," ","r","e","q","u","i","r","e","d">>
NAME_LENGTH == <<"R","e","p","o","s","i","t","o","r","y"," ","n","a","m","e"," ","m","u","s","t"," ","b","e"," ","1","-","1","0","0"," ","c","h","a","r","a","c","t","e","r","s">>
NAME_CHARSET == <<"R","e","p","o","s","i","t","o","r","y"," ","n","a","m","e"," ","c","a","n"," ","o","n","l","y"," ","c","o","n","t","a","i","n"," ","l","e","t","t","e","r","s",","," ","n","u","m","b","e","r","s",","," ","d","o","t","s",","," ","h","y","p","h","e","n","s",","," ","a","n","d"," ","u","n","d","e","r","s","c","o","r","e","s">>
NAME_EDGES == <<"R","e","p","o","s","i","t","o","r","y"," ","n","a","m","e"," ","c","a","n","n","o","t"," ","s","t","a","r","t"," ","o","r"," ","e","n","d"," ","w","i","t","h"," ","d","o","t","s"," ","o","r"," ","h","y","p","h","e","n","s">>
NAME_DANGEROUS == <<"R","e","p","o","s","i","t","o","r","y"," ","n","a","m","e"," ","c","o","n","t","a","i","n","s"," ","i","n","v","a","l","i","d"," ","c","h","a","r","a","c","t","e","r","s">>
NAME_RESERVED == <<"R","e","p","o","s","i","t","o","r","y"," ","n","a","m","e"," ","i","s"," ","r","e","s","e","r","v","e","d">>
JAVASCRIPT_URL == <<"j","a","v","a","s","c","r","i","p","t",":">>
DATA_URL == <<"d","a","t","a",":">>

\* /^[a-zA-Z0-9._-]+$/ (line 544)
SafeCharacters(s) ==
  /\ Len(s) >= 1
  /\ \A k \in 1..Len(s) :
       \/ \E j \in 1..Len(UPPER) : s[k] = UPPER[j] \/ s[k] = LOWER[j]
       \/ s[k] \in DIGITS \cup {".", "_", "-"}

\* /^[.-]|[.-]$/ (line 551)
DotOrHyphenAtEdge(s) ==
  Len(s) >= 1 /\ (s[1] \in {".", "-"} \/ s[Len(s)] \in {".", "-"})

\* the grave accent, which a TLA+ string cannot hold
GRAVE == "grave"

\* the test for angle brackets, quotes, the grave accent, "javascript:",
\* "data:" and two dots in a row (line 556)
DangerousPattern(s) ==
  \/ \E k \in 1..Len(s) : s[k] \in {"<", ">", "\"", "'", GRAVE}
  \/ Includes(s, JAVASCRIPT_URL)
  \/ Includes(s, DATA_URL)
  \/ Includes(s, <<".", ".">>)

reserved ==
  {<<"a","p","i">>, <<"w","w","w">>, <<"a","d","m","i","n">>, <<"r","o","o","t">>,
   <<"g","i","t">>, <<"g","i","t","h","u","b">>, <<"h","e","l","p">>}

\* a reserved-name test that compares the name as it was typed
IsReserved_caseSensitive(s) == s \in reserved

\* reserved.includes(trimmed.toLowerCase()) (line 562)
IsReserved(s) == ToLower(s) \in reserved

Rejected(msg) == [ok |-> FALSE, value |-> <<>>, error |-> msg]

\* validateRepositoryName(repoName): the trimmed name, or the error thrown;
\* an absent name is the empty string
validateRepositoryName(repoName) ==
  LET trimmed == Trim(repoName)
  IN IF repoName = <<>> THEN Rejected(NAME_REQUIRED)
     ELSE IF Len(trimmed) = 0 \/ Len(trimmed) > 100 THEN Rejected(NAME_LENGTH)
     ELSE IF ~SafeCharacters(trimmed) THEN Rejected(NAME_CHARSET)
     ELSE IF DotOrHyphenAtEdge(trimmed) THEN Rejected(NAME_EDGES)
     ELSE IF DangerousPattern(trimmed) THEN Rejected(NAME_DANGEROUS)
     ELSE IF IsReserved(trimmed) THEN Rejected(NAME_RESERVED)
     ELSE [ok |-> TRUE, value |-> trimmed, error |-> <<>>]

(* ------------------------------ base64 -------------------------------- *)

\* Buffer.toString("base64"): digits are alphabet indexes 0..63, 64 is '='
RECURSIVE Base64Encode(_)
Base64Encode(b) ==
  IF Len(b) = 0 THEN <<>>
  ELSE IF Len(b) = 1 THEN
    <<b[1] \div 4, (b[1] % 4) * 16, 64, 64>>
  ELSE IF Len(b) = 2 THEN
    <<b[1] \div 4, (b[1] % 4) * 16 + (b[2] \div 16), (b[2] % 16) * 4, 64>>
  ELSE
    <<b[1] \div 4, (b[1] % 4) * 16 + (b[2] \div 16),
      (b[2] % 16) * 4 + (b[3] \div 64), b[3] % 64>>
      \o Base64Encode(SubSeq(b, 4, Len(b)))

\* the store's decoding of the "content" field of an upsert
RECURSIVE Base64Decode(_)
Base64Decode(d) ==
  IF Len(d) < 4 THEN <<>>
  ELSE IF d[3] = 64 THEN
    <<d[1] * 4 + (d[2] \div 16)>>
  ELSE IF d[4] = 64 THEN
    <<d[1] * 4 + (d[2] \div 16), (d[2] % 16) * 16 + (d[3] \div 4)>>
  ELSE
    <<d[1] * 4 + (d[2] \div 16), (d[2] % 16) * 16 + (d[3] \div 4),
      (d[3] % 4) * 64 + d[4]>>
      \o Base64Decode(SubSeq(d, 5, Len(d)))

(* ------------------------- extracted file trees ----------------------- *)

\* A filesystem entry: a regular file with its bytes, or a directory with
\* its entries in readdir order.
File(n, b) == [name |-> n, kind |-> "file", bytes |-> b, items |-> <<>>]
Dir(n, its) == [name |-> n, kind |-> "dir", bytes |-> <<>>, items |-> its]

DOT_GITHUB == <<".","g","i","t","h","u","b">>

FlatNames == <<"a", "b", "c", "d", "e", "f", "g", "h">>

\* contents of 0, 1, 2 and 3 bytes, so that every base64 padding occurs
FlatBytes(k) == [j \in 1..((k - 1) % 4) |-> (k * 67 + j * 101) % 256]

\* extraction root holding n regular files
FlatTree(n) == Dir(<<>>, [k \in 1..n |-> File(<<FlatNames[k]>>, FlatBytes(k))])

\* one top-level folder wrapping a readme, a workflow folder and a source folder
WrappedTree ==
  Dir(<<>>, <<Dir(<<"p">>,
     <<File(<<"R">>, <<82, 10>>),
       Dir(DOT_GITHUB, <<File(<<"w">>, <<111, 110>>)>>),
       Dir(<<"s">>, <<File(<<"j">>, <<1, 2, 3, 4>>)>>)>>)>>)

\* a folder whose name holds a URL fragment delimiter
HashTree ==
  Dir(<<>>, <<Dir(<<"C","#">>, <<File(<<"x">>, <<120>>)>>), File(<<"y">>, <<121, 0>>)>>)

\* a file whose name holds the words the retry test looks for
RateNameTree ==
  Dir(<<>>, <<File(RATE_LIMIT, <<9>>), File(<<"z">>, <<>>)>>)

\* a source folder with a workflow folder of its own, beside an empty folder
NestedTree ==
  Dir(<<>>, <<Dir(<<"s">>, <<Dir(DOT_GITHUB, <<File(<<"w">>, <<111, 110>>)>>)>>),
              Dir(<<"d">>, <<>>)>>)

\* a folder whose name holds a URL fragment delimiter and which holds two
\* files, beside an empty folder
SharedPathTree ==
  Dir(<<>>, <<Dir(<<"C","#">>, <<File(<<"x">>, <<120>>), File(<<"z">>, <<122, 0>>)>>),
              Dir(<<"d">>, <<>>)>>)

\* only an empty folder
EmptyDirTree == Dir(<<>>, <<Dir(<<"d">>, <<>>)>>)

README_MD == <<"R","E","A","D","M","E",".","m","d">>
CI_YML == <<"c","i",".","y","m","l">>
INDEX_JS == <<"i","n","d","e","x",".","j","s">>
NODE_MODULES == <<"n","o","d","e","_","m","o","d","u","l","e","s">>

\* one top-level folder proj holding README.md, .github/workflows/ci.yml
\* and node_modules/pkg/index.js
ScenarioTree ==
  Dir(<<>>, <<Dir(<<"p","r","o","j">>,
     <<File(README_MD, <<35, 32, 112>>),
       Dir(DOT_GITHUB,
           <<Dir(<<"w","o","r","k","f","l","o","w","s">>,
                 <<File(CI_YML, <<111, 110, 58>>)>>)>>),
       Dir(NODE_MODULES,
           <<Dir(<<"p","k","g">>, <<File(INDEX_JS, <<49, 59>>)>>)>>)>>)>>)

Archives ==
  {FlatTree(n) : n \in 0..MaxFiles}
    \cup {WrappedTree, HashTree, RateNameTree, EmptyDirTree, ScenarioTree,
          NestedTree, SharedPathTree}

(* -------------------------- filesystem steps -------------------------- *)

\* a directory as fs.statSync(...).isDirectory() sees it, listable or not
IsDirectory(e) == e.kind \in {"dir", "nolist"}

\* an unwrapping that goes down as long as there is a single directory
RECURSIVE ContentRoot_repeated(_)
ContentRoot_repeated(root) ==
  IF Len(root.items) = 1 /\ IsDirectory(root.items[1])
  THEN ContentRoot_repeated(root.items[1])
  ELSE root

\* upload(): the effective working directory
ContentRoot(root) ==
  IF Len(root.items) = 1 /\ IsDirectory(root.items[1])
  THEN root.items[1]
  ELSE root

\* a removal that looks for .github at every depth
RECURSIVE removeWorkflowFiles_deep(_)
removeWorkflowFiles_deep(dir) ==
  [dir EXCEPT !.items =
     LET kept == SelectSeq(dir.items, LAMBDA e : e.name # DOT_GITHUB)
     IN [k \in 1..Len(kept) |->
           IF kept[k].kind = "dir" THEN removeWorkflowFiles_deep(kept[k])
           ELSE kept[k]]]

\* a removal that leaves the directory as it is
removeWorkflowFiles_nothing(dir) == dir

\* removeWorkflowFiles(): its return value, fs.existsSync(githubDir)
removedWorkflows(dir) ==
  \E k \in 1..Len(dir.items) : dir.items[k].name = DOT_GITHUB

\* removeWorkflowFiles(): the directory without its .github entry
removeWorkflowFiles(dir) ==
  [dir EXCEPT !.items = SelectSeq(dir.items, LAMBDA e : e.name # DOT_GITHUB)]

\* a test that lets every working directory through
NothingToUpload_never(dir) == FALSE

\* upload(): "No files found to upload" test
NothingToUpload(dir) ==
  LET fileCount == Cardinality({k \in 1..Len(dir.items) : dir.items[k].kind = "file"})
      folderCount == Cardinality({k \in 1..Len(dir.items) : dir.items[k].kind = "dir"})
  IN fileCount = 0 /\ folderCount = 0

\* collectFiles(dir, basePath): every regular file, depth first
RECURSIVE collectFiles(_, _)
collectFiles(items, basePath) ==
  IF items = <<>> THEN <<>>
  ELSE
    LET item == Head(items)
        relativePath == IF basePath # <<>>
                        THEN basePath \o <<"/">> \o item.name
                        ELSE item.name
    IN (IF item.kind = "dir" THEN collectFiles(item.items, relativePath)
        ELSE IF item.kind = "file"
             THEN <<[relativePath |-> relativePath, content |-> item.bytes]>>
             ELSE <<>>)
       \o collectFiles(Tail(items), basePath)

\* The path the contents endpoint receives for `${baseUrl}/${relativePath}`:
\* fetch parses the string as a URL, so the path ends at the first '?' or '#'.
UrlPath(relativePath) ==
  LET cut == FirstOf(relativePath, {"#", "?"})
  IN IF cut = 0 THEN relativePath ELSE SubSeq(relativePath, 1, cut - 1)


(* ------------------------- the remote store --------------------------- *)

\* the revision token of a blob: a function of its content alone
Sha(blob) == [blob |-> blob]
NoSha == [none |-> TRUE]

API_RATE_MSG == <<"A","P","I"," ">> \o RATE_LIMIT \o <<" ","e","x","c","e","e","d","e","d">>
SECONDARY_MSG == <<"s","e","c","o","n","d","a","r","y"," ">> \o RATE_LIMIT
SHA_MSG == <<"\"">> \o SHA_WORD \o <<"\""," ","w","a","s","n","'","t"," ","s","u","p","p","l","i","e","d">>
SERVER_MSG == <<"S","e","r","v","e","r"," ","E","r","r","o","r">>
CONFLICT_MSG == <<"c","o","n","f","l","i","c","t">>
NOT_FOUND_MSG == <<"N","o","t"," ","F","o","u","n","d">>

Response(st, msg) == [status |-> st, message |-> msg, sha |-> NoSha]

\* answers the store may give whatever it holds: primary rate limit,
\* secondary rate limit, server failure
PutFaults == {Response(403, API_RATE_MSG), Response(429, SECONDARY_MSG),
              Response(500, SERVER_MSG)}
GetFaults == {Response(500, SERVER_MSG)}

\* PUT contents/<path> without a revision token
CreateAnswer(st, sp) ==
  IF sp = <<>> THEN Response(404, NOT_FOUND_MSG)
  ELSE IF sp \in DOMAIN st THEN Response(422, SHA_MSG)
  ELSE Response(201, <<>>)

\* GET contents/<path>
ReadAnswer(st, sp) ==
  IF sp \in DOMAIN st
  THEN [status |-> 200, message |-> <<>>, sha |-> Sha(st[sp])]
  ELSE Response(404, NOT_FOUND_MSG)

\* PUT contents/<path> with a revision token
UpdateAnswer(st, sp, sha) ==
  IF sp \in DOMAIN st /\ Sha(st[sp]) = sha THEN Response(200, <<>>)
  ELSE IF sp \in DOMAIN st THEN Response(409, CONFLICT_MSG)
  ELSE Response(422, SHA_MSG)

\* the store after it accepted an upsert of base64 text b64 at sp
StoreWrite(st, sp, b64) ==
  [q \in (DOMAIN st) \cup {sp} |-> IF q = sp THEN Base64Decode(b64) ELSE st[q]]

Ok(r) == r.status >= 200 /\ r.status < 300

(* --------------------------- upload tasks ----------------------------- *)

RATE_HIT_PREFIX == <<"R","a","t","e"," ","l","i","m","i","t"," ","h","i","t"," ","f","o","r"," ">>
FAILED_UPLOAD_PREFIX == <<"F","a","i","l","e","d"," ","t","o"," ","u","p","l","o","a","d"," ">>
FAILED_UPDATE_PREFIX == <<"F","a","i","l","e","d"," ","t","o"," ","u","p","d","a","t","e"," ">>
COLON == <<":"," ">>

\* no answer yet
NoResponse == Response(0, <<>>)

\* one call of the async callback of uploadFileBatch: where it awaits, the
\* base64 body it sends, requestBody.sha, the answer to its first write,
\* the record it read, and the answer that made it throw
NewTask(file) ==
  [pc |-> "put1", content |-> Base64Encode(file.content), sha |-> NoSha,
   first |-> NoResponse, existingFile |-> NoResponse, failure |-> NoResponse,
   err |-> <<>>]

Pending(t) == t.pc \in {"put1", "get", "put2"}

\* the answers a pending task may receive
Answers(st, file, t) ==
  LET sp == UrlPath(file.relativePath)
  IN IF t.pc = "put1" THEN {CreateAnswer(st, sp)} \cup PutFaults
     ELSE IF t.pc = "get" THEN {ReadAnswer(st, sp)} \cup GetFaults
     ELSE {UpdateAnswer(st, sp, t.sha)} \cup PutFaults

\* a store on which a refused request removes the path
StoreAfter_revertOnFailure(st, file, t, r) ==
  IF t.pc \in {"put1", "put2"} /\ Ok(r)
  THEN StoreWrite(st, UrlPath(file.relativePath), t.content)
  ELSE [q \in (DOMAIN st) \ {UrlPath(file.relativePath)} |-> st[q]]

\* the store after it answered r to the task's request
StoreAfter(st, file, t, r) ==
  IF t.pc \in {"put1", "put2"} /\ Ok(r)
  THEN StoreWrite(st, UrlPath(file.relativePath), t.content)
  ELSE st

\* the error thrown for a first write that was not accepted (lines 909-917)
UploadError(file, r) ==
  IF r.status = 403 /\ r.message # <<>> /\ Includes(r.message, RATE_LIMIT)
  THEN RATE_HIT_PREFIX \o file.relativePath
  ELSE FAILED_UPLOAD_PREFIX \o file.relativePath \o COLON \o r.message

\* continuation on the answer to the first write (lines 863-873, 909-921)
TaskAfterCreate(file, t, r) ==
  IF Ok(r) THEN [t EXCEPT !.pc = "done", !.first = r]
  ELSE IF r.status = 422 /\ r.message # <<>> /\ Includes(r.message, SHA_WORD)
    THEN [t EXCEPT !.pc = "get", !.first = r]
    ELSE [t EXCEPT !.pc = "failed", !.first = r, !.failure = r,
                   !.err = UploadError(file, r)]

\* a read whose token is not attached to the second write
TaskAfterRead_tokenDropped(file, t, r) ==
  IF Ok(r) THEN [t EXCEPT !.pc = "put2", !.existingFile = r]
  ELSE [t EXCEPT !.pc = "failed", !.failure = r,
                 !.err = UploadError(file, t.first)]

\* continuation on the answer to the read (lines 881-893, 906-917)
TaskAfterRead(file, t, r) ==
  IF Ok(r) THEN [t EXCEPT !.pc = "put2", !.existingFile = r, !.sha = r.sha]
  ELSE [t EXCEPT !.pc = "failed", !.failure = r,
                 !.err = UploadError(file, t.first)]

\* a callback that reads the file again when its update is refused
TaskAfterUpdate_readAgain(file, t, r) ==
  IF Ok(r) THEN [t EXCEPT !.pc = "done"]
  ELSE [t EXCEPT !.pc = "get"]

\* continuation on the answer to the second write (lines 895-905)
TaskAfterUpdate(file, t, r) ==
  IF Ok(r) THEN [t EXCEPT !.pc = "done"]
  ELSE [t EXCEPT !.pc = "failed", !.failure = r,
                 !.err = FAILED_UPDATE_PREFIX \o file.relativePath \o COLON \o r.message]

\* the callback's continuation on answer r (lines 863-925)
TaskAfter(file, t, r) ==
  IF t.pc = "put1" THEN TaskAfterCreate(file, t, r)
  ELSE IF t.pc = "get" THEN TaskAfterRead(file, t, r)
  ELSE TaskAfterUpdate(file, t, r)

(* --------------------------- error messages --------------------------- *)

DOWNLOAD_FAILED == <<"F","a","i","l","e","d"," ","t","o"," ","d","o","w","n","l","o","a","d"," ","z","i","p">>
EXTRACT_FAILED == <<"I","n","v","a","l","i","d"," ","o","r"," ","u","n","s","u","p","p","o","r","t","e","d"," ","z","i","p"," ","f","o","r","m","a","t">>
NO_FILES == <<"N","o"," ","f","i","l","e","s"," ","f","o","u","n","d"," ","t","o"," ","u","p","l","o","a","d">>
CHECK_FAILED == <<"F","a","i","l","e","d"," ","t","o"," ","c","h","e","c","k"," ","r","e","p","o","s","i","t","o","r","y",":"," ">>
AUTH_FAILED == <<"G","i","t","H","u","b"," ","a","u","t","h","e","n","t","i","c","a","t","i","o","n"," ","f","a","i","l","e","d">>
RATE_EXCEEDED == <<"G","i","t","H","u","b"," ","A","P","I"," ","r","a","t","e"," ","l","i","m","i","t"," ","e","x","c","e","e","d","e","d","."," ">>
FORBIDDEN == <<"G","i","t","H","u","b"," ","A","P","I"," ","a","c","c","e","s","s"," ","f","o","r","b","i","d","d","e","n">>
NOT_ACCESSIBLE == <<"e","x","i","s","t","s"," ","b","u","t"," ","i","s"," ","n","o","t"," ","a","c","c","e","s","s","i","b","l","e">>
VALIDATION_FAILED == <<"R","e","p","o","s","i","t","o","r","y"," ","c","r","e","a","t","i","o","n"," ","v","a","l","i","d","a","t","i","o","n"," ","f","a","i","l","e","d",":"," ">>
CREATION_FAILED == <<"R","e","p","o","s","i","t","o","r","y"," ","c","r","e","a","t","i","o","n"," ","f","a","i","l","e","d",":"," ">>
NAME_EXISTS == <<"n","a","m","e"," ","a","l","r","e","a","d","y"," ","e","x","i","s","t","s">>
BAD_CREDENTIALS == <<"B","a","d"," ","c","r","e","d","e","n","t","i","a","l","s">>

INVALID_MESSAGE == <<"I","n","v","a","l","i","d"," ","S","e","r","v","i","c","e"," ","B","u","s"," ","m","e","s","s","a","g","e"," ","f","o","r","m","a","t">>
MISSING_FIELDS == <<"M","i","s","s","i","n","g"," ","r","e","q","u","i","r","e","d"," ","f","i","e","l","d","s",":"," ">>
TOKEN_FAILED == <<"G","i","t","H","u","b"," ","t","o","k","e","n"," ","v","a","l","i","d","a","t","i","o","n"," ","f","a","i","l","e","d",":"," ">>
TOKEN_BELONGS == <<"T","o","k","e","n"," ","b","e","l","o","n","g","s"," ","t","o"," ","u","s","e","r"," ","'">>
BUT_EXPECTED == <<"'"," ","b","u","t"," ","e","x","p","e","c","t","e","d"," ","'">>
CONFIG_HINT == <<"'","."," ","P","l","e","a","s","e"," ","c","h","e","c","k"," ","y","o","u","r"," ","c","o","n","f","i","g","u","r","a","t","i","o","n",".">>
NO_SPACE == <<"E","N","O","S","P","C",":"," ","n","o"," ","s","p","a","c","e"," ","l","e","f","t"," ","o","n"," ","d","e","v","i","c","e">>
NOT_ACCESSIBLE_MSG == <<"R","e","s","o","u","r","c","e"," ","n","o","t"," ","a","c","c","e","s","s","i","b","l","e"," ","b","y"," ","p","e","r","s","o","n","a","l"," ","a","c","c","e","s","s"," ","t","o","k","e","n">>

(* ------------------------- the queue message -------------------------- *)

\* The Service Bus message: an object, a string holding JSON ("json"), a
\* string JSON.parse rejects ("text"), or neither a string nor an object
\* ("other").  A field that is absent is the empty string.
Message(form, username, zipUrl, repoName, authToken) ==
  [form |-> form, username |-> username, zipUrl |-> zipUrl,
   repoName |-> repoName, authToken |-> authToken]

F_USERNAME == <<"u","s","e","r","n","a","m","e">>
F_ZIPURL == <<"z","i","p","U","r","l">>
F_REPONAME == <<"r","e","p","o","N","a","m","e">>
F_AUTHTOKEN == <<"a","u","t","h","T","o","k","e","n">>
COMMA == <<","," ">>

\* Array.prototype.join(", ")
RECURSIVE Join(_)
Join(parts) ==
  IF parts = <<>> THEN <<>>
  ELSE IF Len(parts) = 1 THEN parts[1]
  ELSE parts[1] \o COMMA \o Join(Tail(parts))

\* the names of the required fields the message lacks (lines 1108-1112)
Missing(m) ==
  (IF m.username = <<>> THEN <<F_USERNAME>> ELSE <<>>)
    \o (IF m.zipUrl = <<>> THEN <<F_ZIPURL>> ELSE <<>>)
    \o (IF m.repoName = <<>> THEN <<F_REPONAME>> ELSE <<>>)
    \o (IF m.authToken = <<>> THEN <<F_AUTHTOKEN>> ELSE <<>>)

\* a processor that does not validate the repository name
IntakeError_nameUnchecked(m) ==
  IF m.form \in {"text", "other"} THEN INVALID_MESSAGE
  ELSE IF Missing(m) # <<>> THEN MISSING_FIELDS \o Join(Missing(m))
  ELSE <<>>

\* The synchronous part of the queue processor (lines 1078-1125): the error
\* it throws before the identity probe, <<>> if it goes on to the probe
IntakeError(m) ==
  IF m.form \in {"text", "other"} THEN INVALID_MESSAGE
  ELSE IF Missing(m) # <<>> THEN MISSING_FIELDS \o Join(Missing(m))
  ELSE validateRepositoryName(m.repoName).error

\* validatedRepoName of the queue processor (line 1117)
validatedRepoName(m) == validateRepositoryName(m.repoName).value

(* --------------------- accounts of the remote store ------------------- *)

TOKEN_U == <<"g","h","p","_","u">>
TOKEN_V == <<"g","h","p","_","v">>
TOKEN_S == <<"g","h","p","_","s">>
TOKEN_X == <<"x">>

\* a login the remote store may have registered
SENTINEL_LOGIN == <<"r","a","t","e","-","l","i","m","i","t","e","d","-","u","s","e","r">>

\* the login of the account a bearer token belongs to, <<>> if there is none
TokenOwner(token) ==
  IF token = TOKEN_U THEN <<"u">>
  ELSE IF token = TOKEN_V THEN <<"v">>
  ELSE IF token = TOKEN_S THEN SENTINEL_LOGIN
  ELSE <<>>

UserResponse(st, msg, login) == [status |-> st, message |-> msg, login |-> login]

\* answers of GET /user
ProbeAnswers(token) ==
  {IF TokenOwner(token) # <<>>
   THEN UserResponse(200, <<>>, TokenOwner(token))
   ELSE UserResponse(401, BAD_CREDENTIALS, <<>>),
   UserResponse(403, API_RATE_MSG, <<>>),
   UserResponse(403, NOT_ACCESSIBLE_MSG, <<>>),
   UserResponse(429, SECONDARY_MSG, <<>>),
   UserResponse(500, SERVER_MSG, <<>>)}

(* --------------------------- identity probe --------------------------- *)

\* the object testGitHubToken returns when it skips the validation
RateLimitedUser ==
  [threw |-> FALSE, err |-> <<>>, login |-> SENTINEL_LOGIN, rateLimit |-> TRUE]

\* a probe without the catch block that looks for "rate limit" in the
\* message of the error
testGitHubToken_catchOmitted(r) ==
  IF Ok(r) THEN
    [threw |-> FALSE, err |-> <<>>, login |-> r.login, rateLimit |-> FALSE]
  ELSE IF r.status = 403 /\ r.message # <<>> /\ Includes(r.message, RATE_LIMIT)
    THEN RateLimitedUser
  ELSE [threw |-> TRUE, err |-> TOKEN_FAILED \o r.message, login |-> <<>>,
        rateLimit |-> FALSE]

\* testGitHubToken(): what it returns or throws on answer r (lines 579-617)
testGitHubToken(r) ==
  LET failure == TOKEN_FAILED \o r.message
  IN IF Ok(r) THEN
       [threw |-> FALSE, err |-> <<>>, login |-> r.login, rateLimit |-> FALSE]
     ELSE IF r.status = 403 /\ r.message # <<>> /\ Includes(r.message, RATE_LIMIT)
       THEN RateLimitedUser
     ELSE IF Includes(failure, RATE_LIMIT) THEN RateLimitedUser
     ELSE [threw |-> TRUE, err |-> failure, login |-> <<>>, rateLimit |-> FALSE]

\* the owner check of the queue processor throws (lines 1130-1131)
OwnerMismatch(githubUser, username) ==
  /\ ~githubUser.rateLimit /\ githubUser.login # SENTINEL_LOGIN
  /\ ToLower(githubUser.login) # ToLower(username)

(* ------------------------------ state --------------------------------- *)

VARIABLES
  mySbMsg,     \* the Service Bus message the processor was invoked with
  archive,     \* the tree the archive at zipUrl extracts to
  repos,       \* remote: the accounts that hold a repository of the job's name
  store,       \* remote: path -> bytes of the files of <username>/<repoName>
  store0,      \* the store when the job started
  zipFile,     \* scratch: download-<now>.zip exists
  extractDir,  \* scratch: the tree under unzipped-<now>, NoDir if absent
  workingDir,  \* upload(): workingDir, NoDir until it is determined
  pc,          \* where the job awaits
  answer,      \* the response the awaiting function received last
  allFiles,    \* uploadToGitHubAPI(): allFiles
  i,           \* uploadToGitHubAPI(): loop variable of the batch loop
  attempt,     \* 1 while the try block awaits the batch, 2 in the catch block
  task,        \* per file, the callbacks started for it, oldest first
  batches,     \* every call of uploadFileBatch so far: [files, attempt]
  jobError,    \* message of the error the job threw, <<>> if none
  repoUrl,     \* the URL the job returned, <<>> if none
  ensureLog,   \* direct calls of createRepoIfNotExists: requests and result
  attempts,    \* sequential uploadToGitHubAPI(): attempts of the verification
  wire,        \* requests a strategy sent to the API so far, oldest first
  git,         \* remote: the object database and the branch of the repository
  clock,       \* Date.now() of the host
  tempDir,     \* the entries of TEMP_DIR: name -> modification time
  jobs,        \* the upload() calls running on the host, by job
  req,         \* the HTTP request the intake endpoint was invoked with
  queue,       \* the messages in the Service Bus queue, oldest first
  res,         \* context.res of an HTTP endpoint
  github       \* the rows of the table Github of the credential store

vars == <<mySbMsg, archive, repos, store, store0, zipFile, extractDir, workingDir,
          pc, answer, allFiles, i, attempt, task, batches, jobError, repoUrl,
          ensureLog, attempts, wire, git, clock, tempDir, jobs, req, queue,
          res, github>>

\* the state of the components a specification does not run
others == <<attempts, wire, git, clock, tempDir, jobs, req, queue, res, github>>

NoDir == [name |-> <<>>, kind |-> "none", bytes |-> <<>>, items |-> <<>>]

OldBytes == <<111, 108, 100>>

\* the working directory upload() derives from an extraction root
WorkingDirOf(root) == removeWorkflowFiles(ContentRoot(root))

\* the store paths the job's files are sent to
TargetPaths(root) ==
  LET fs == collectFiles(WorkingDirOf(root).items, <<>>)
  IN [k \in 1..Len(fs) |-> UrlPath(fs[k].relativePath)]

\* what a destination repository that already exists may hold of the
\* job's paths: none of them, or the first of them with older content
\* (the callbacks of a batch are interleaved in every order, so the first
\* path stands for any one of them)
ExistingSets(paths) ==
  {{}} \cup (IF paths = <<>> THEN {} ELSE {{paths[1]}})

\* GET repos/<username>/<repoName> finds a repository; the remote store
\* compares account names without regard to case
repoExists == ToLower(mySbMsg.username) \in repos

\* the token's account may write to <username>/<repoName>
CanWrite == repoExists /\ TokenOwner(mySbMsg.authToken) = ToLower(mySbMsg.username)

ZIP_URL == <<"z">>

\* the message of a well-formed job of account u
StandardMessage == Message("object", <<"u">>, ZIP_URL, <<"r">>, TOKEN_U)

EVIL == <<".",".","/","e","v","i","l">>

Usernames == {<<>>, <<"u">>, <<"U">>, <<"v">>, <<".", ".">>}
RepoNames == {<<>>, <<"r">>, <<" ", "r", " ">>, EVIL, <<"A", "P", "I">>}
Tokens == {<<>>, TOKEN_U, TOKEN_V, TOKEN_S, TOKEN_X}

Messages ==
  {Message(form, <<>>, <<>>, <<>>, <<>>) : form \in {"text", "other"}}
    \cup {Message(form, u, z, r, t) :
            form \in {"object", "json"}, u \in Usernames, z \in {<<>>, ZIP_URL},
            r \in RepoNames, t \in Tokens}

\* no object is named by sha 0
NoObject == 0

\* the account holds no repository of the name helloTree uses
NoGit == [exists |-> FALSE, objects |-> <<>>, main |-> NoObject]

\* the intake endpoint was not invoked and has set no response
NoRequest ==
  [method |-> "", body |-> "none", username |-> <<>>, zipUrl |-> <<>>,
   repoName |-> <<>>, connectionString |-> FALSE]
NoRes == [status |-> 0, body |-> <<>>]

\* the variables of a job of the queue processor before it starts
JobIdle ==
  /\ store0 = store
  /\ zipFile = FALSE
  /\ extractDir = NoDir
  /\ workingDir = NoDir
  /\ answer = NoResponse
  /\ allFiles = <<>>
  /\ i = 0
  /\ attempt = 1
  /\ task = <<>>
  /\ batches = <<>>
  /\ jobError = <<>>
  /\ repoUrl = <<>>
  /\ ensureLog = <<>>

\* what every run starts from, whatever the message is
Idle ==
  /\ JobIdle
  /\ attempts = 0
  /\ wire = <<>>
  /\ git = NoGit
  /\ clock = 0
  /\ tempDir = {}
  /\ jobs = <<>>
  /\ req = NoRequest
  /\ queue = <<>>
  /\ res = NoRes
  /\ github = {}

\* The processor is invoked with a message: the standard job with every
\* archive, or any message with an archive of one file.
Init ==
  /\ \/ /\ mySbMsg = StandardMessage
        /\ archive \in Archives
        /\ repos \in {{}, {<<"u">>}}
     \/ /\ mySbMsg \in Messages
        /\ archive = FlatTree(1)
        /\ repos \in SUBSET {<<"u">>, <<"v">>}
  /\ \E pre \in ExistingSets(TargetPaths(archive)) :
       /\ repoExists \/ pre = {}
       /\ store = [q \in pre |-> OldBytes]
  /\ pc = "received"
  /\ Idle

(* ------------------------ control-flow fragments ---------------------- *)

N == Len(allFiles)

Min(a, b) == IF a < b THEN a ELSE b

\* a slice one element too long
Slice_offByOne(from, n) == (from + 1)..Min(from + BATCH_SIZE + 1, n)

\* allFiles.slice(from, from + BATCH_SIZE), as 1-based indexes
Slice(from, n) == (from + 1)..Min(from + BATCH_SIZE, n)

\* uploadFileBatch(batch): one more callback per file of the slice
uploadFileBatch(tk, files, from) ==
  [f \in 1..Len(files) |->
     IF f \in Slice(from, Len(files)) THEN Append(tk[f], NewTask(files[f])) ELSE tk[f]]

GITHUB_COM == <<"h","t","t","p","s",":","/","/","g","i","t","h","u","b",".","c","o","m","/">>

\* `https://github.com/${username}/${repoName}` (line 1037)
REPO_URL == GITHUB_COM \o mySbMsg.username \o <<"/">> \o validatedRepoName(mySbMsg)

\* variables no step of a job changes
given == <<mySbMsg, archive, store0, ensureLog, others>>

\* the processor rethrows the error (lines 1157-1160)
Fail(err) ==
  /\ pc' = "failed"
  /\ jobError' = err
  /\ UNCHANGED repoUrl

\* an error leaves upload() after extractPath was assigned: its finally
\* block removes the extraction directory (lines 1061-1071)
Throw(err) ==
  /\ Fail(err)
  /\ extractDir' = NoDir
  /\ UNCHANGED zipFile

\* upload() returns the repository URL; its finally block removes extractPath
Return ==
  /\ pc' = "success"
  /\ repoUrl' = REPO_URL
  /\ extractDir' = NoDir
  /\ UNCHANGED <<jobError, zipFile>>

\* the batch loop reaches its test with loop variable from, callbacks tk
Loop(from, tk, files) ==
  /\ i' = from
  /\ attempt' = 1
  /\ IF from < Len(files)
     THEN /\ task' = uploadFileBatch(tk, files, from)
          /\ batches' = Append(batches,
               [files |-> Slice(from, Len(files)), attempt |-> 1])
          /\ pc' = "batch"
          /\ UNCHANGED <<jobError, repoUrl, zipFile, extractDir>>
     ELSE /\ task' = tk
          /\ UNCHANGED batches
          /\ Return

\* createRepoIfNotExists returned a handle, which upload() drops (line
\* 1031): uploadToGitHubAPI starts
StartUpload ==
  LET files == collectFiles(workingDir.items, <<>>)
  IN /\ allFiles' = files
     /\ answer' = NoResponse
     /\ Loop(0, [f \in 1..Len(files) |-> <<>>], files)

(* ------------------------ intake and identity probe ----------------- *)

\* The processor parses the message, checks the required fields and the
\* repository name, and calls testGitHubToken (lines 1078-1128).
Receive ==
  /\ pc = "received"
  /\ IF IntakeError(mySbMsg) # <<>>
     THEN Fail(IntakeError(mySbMsg))
     ELSE /\ pc' = "probe"
          /\ UNCHANGED <<jobError, repoUrl>>
  /\ UNCHANGED <<given, repos, store, zipFile, extractDir, workingDir, answer,
                 allFiles, i, attempt, task, batches>>

\* testGitHubToken(): continuation on the answer of GET /user, then the
\* owner check of the processor and the call of upload() up to the download
\* request (lines 579-617, 1130-1148, 976-995, 747-757)
ProbeResponse ==
  /\ pc = "probe"
  /\ \E r \in ProbeAnswers(mySbMsg.authToken) :
       LET githubUser == testGitHubToken(r)
       IN /\ answer' = r
          /\ IF githubUser.threw THEN Fail(githubUser.err)
             ELSE IF OwnerMismatch(githubUser, mySbMsg.username)
             THEN Fail(TOKEN_BELONGS \o githubUser.login \o BUT_EXPECTED
                         \o mySbMsg.username \o CONFIG_HINT)
             ELSE /\ pc' = "download"
                  /\ UNCHANGED <<jobError, repoUrl>>
  /\ UNCHANGED <<given, repos, store, zipFile, extractDir, workingDir,
                 allFiles, i, attempt, task, batches>>

(* ------------------- download, extraction, provisioning --------------- *)

\* the extraction directory after removeWorkflowFiles ran on the content root
Stripped(root) ==
  IF ContentRoot(root) = root THEN removeWorkflowFiles(root)
  ELSE [root EXCEPT !.items = <<removeWorkflowFiles(root.items[1])>>]

\* a catch block that removes the zip file only
CleanupAfterError_zipOnly(zipExists, dir) ==
  [zipFile |-> FALSE, extractDir |-> dir]

\* the catch block of downloadAndExtractZip: the scratch area after it
\* removed what exists of zipPath and extractPath (lines 776-779)
CleanupAfterError(zipExists, dir) ==
  [zipFile |-> FALSE, extractDir |-> NoDir]

\* what extractAllTo had written of a tree when it failed
Partial(tree) ==
  [tree EXCEPT !.items = SubSeq(tree.items, 1, Len(tree.items) - 1)]

\* downloadAndExtractZip(): the error thrown (<<>> if none) and the scratch
\* area it leaves.  The download is refused ("http error"), AdmZip rejects
\* the file ("bad zip"), extractAllTo fails part-way ("extract error"), or
\* the archive is extracted and the zip file unlinked (lines 757-773).
downloadAndExtractZip(outcome, tree) ==
  IF outcome = "http error"
  THEN [err |-> DOWNLOAD_FAILED, scratch |-> CleanupAfterError(FALSE, NoDir)]
  ELSE IF outcome = "bad zip"
  THEN [err |-> EXTRACT_FAILED, scratch |-> CleanupAfterError(TRUE, NoDir)]
  ELSE IF outcome = "extract error"
  THEN [err |-> NO_SPACE, scratch |-> CleanupAfterError(TRUE, Partial(tree))]
  ELSE [err |-> <<>>, scratch |-> [zipFile |-> FALSE, extractDir |-> tree]]

\* downloadAndExtractZip() and the synchronous part of upload() after it,
\* up to the existence check of createRepoIfNotExists (lines 757-773,
\* 995-1031, 623-632)
DownloadResponse ==
  /\ pc = "download"
  /\ \E outcome \in {"ok", "http error", "bad zip", "extract error"} :
       LET d == downloadAndExtractZip(outcome, archive)
       IN /\ answer' = IF outcome = "http error"
                       THEN Response(404, NOT_FOUND_MSG) ELSE Response(200, <<>>)
          /\ zipFile' = d.scratch.zipFile
          /\ IF d.err # <<>> THEN
               /\ Fail(d.err)
               /\ extractDir' = d.scratch.extractDir
               /\ UNCHANGED workingDir
             ELSE
               /\ workingDir' = WorkingDirOf(d.scratch.extractDir)
               /\ IF NothingToUpload(WorkingDirOf(d.scratch.extractDir))
                  THEN /\ Fail(NO_FILES)
                       /\ extractDir' = NoDir
                  ELSE /\ pc' = "lookup"
                       /\ extractDir' = Stripped(d.scratch.extractDir)
                       /\ UNCHANGED <<jobError, repoUrl>>
  /\ UNCHANGED <<given, repos, store, allFiles, i, attempt, task, batches>>

\* the record of the repository the remote store returns
RepoResponse(st) ==
  [status |-> st, message |-> <<>>, errors |-> <<>>,
   full_name |-> ToLower(mySbMsg.username) \o <<"/">> \o validatedRepoName(mySbMsg)]

\* the answer of GET repos/<username>/<repoName> when nothing goes wrong
Lookup ==
  IF TokenOwner(mySbMsg.authToken) = <<>> THEN Response(401, BAD_CREDENTIALS)
  ELSE IF repoExists THEN RepoResponse(200)
  ELSE Response(404, NOT_FOUND_MSG)

\* answers of the existence check
LookupAnswers ==
  {Lookup, Response(403, API_RATE_MSG), Response(500, SERVER_MSG)}

\* answers of the re-check
VerifyAnswers == {Lookup, Response(500, SERVER_MSG)}

CreateResponseOf(st, msg, errs) == [status |-> st, message |-> msg, errors |-> errs]

\* answers of POST user/repos: the repository is created in the account
\* the token belongs to
CreateAnswers ==
  {IF TokenOwner(mySbMsg.authToken) = <<>>
   THEN CreateResponseOf(401, BAD_CREDENTIALS, <<>>)
   ELSE IF TokenOwner(mySbMsg.authToken) \in repos
   THEN CreateResponseOf(422, VALIDATION_FAILED, <<NAME_EXISTS>>)
   ELSE [status |-> 201, message |-> <<>>, errors |-> <<>>,
         full_name |-> TokenOwner(mySbMsg.authToken) \o <<"/">> \o validatedRepoName(mySbMsg)],
   CreateResponseOf(401, BAD_CREDENTIALS, <<>>),
   CreateResponseOf(403, API_RATE_MSG, <<>>),
   CreateResponseOf(403, FORBIDDEN, <<>>),
   CreateResponseOf(422, VALIDATION_FAILED, <<SERVER_MSG>>),
   CreateResponseOf(500, SERVER_MSG, <<>>)}

\* the accounts holding the repository after POST user/repos was answered r
ReposAfterCreate(r) ==
  IF Ok(r) THEN repos \cup {TokenOwner(mySbMsg.authToken)} ELSE repos

\* the files of <username>/<repoName> after POST user/repos was answered r
StoreAfterCreate(r) ==
  IF Ok(r) /\ TokenOwner(mySbMsg.authToken) = ToLower(mySbMsg.username) THEN <<>> ELSE store

\* an existence check whose answer is ignored
AfterLookup_alwaysCreate(r) == "create"

\* an existence check after which every failure leads to a creation attempt
AfterLookup_createOnFailure(r) ==
  IF Ok(r) THEN "return" ELSE "create"

\* createRepoIfNotExists(): what follows the existence check (lines 634-662)
AfterLookup(r) ==
  IF Ok(r) THEN "return"
  ELSE IF r.status # 404
          /\ ~(r.status = 403 /\ r.message # <<>> /\ Includes(r.message, RATE_LIMIT))
  THEN "throw"
  ELSE "create"

\* createRepoIfNotExists(): what follows the creation request (lines 681-739)
AfterCreate(r) ==
  IF Ok(r) THEN "return"
  ELSE IF r.status = 422
          /\ \E k \in 1..Len(r.errors) :
               r.errors[k] # <<>> /\ Includes(r.errors[k], NAME_EXISTS)
  THEN "verify"
  ELSE "throw"

\* a re-check after whose failure the repository is created again
AfterVerify_createAgain(r) ==
  IF Ok(r) THEN "return" ELSE "create"

\* createRepoIfNotExists(): what follows the re-check (lines 712-723)
AfterVerify(r) ==
  IF Ok(r) THEN "return" ELSE "throw"

\* the error createRepoIfNotExists throws for a refused creation that is
\* not a name clash (lines 681-735)
CreateError(r) ==
  IF r.status = 401 THEN AUTH_FAILED
  ELSE IF r.status = 403 THEN
    IF r.message # <<>> /\ Includes(r.message, RATE_LIMIT)
    THEN RATE_EXCEEDED \o r.message
    ELSE FORBIDDEN
  ELSE IF r.status = 422 THEN VALIDATION_FAILED \o r.message
  ELSE CREATION_FAILED \o r.message

\* upload() after createRepoIfNotExists decided what comes next: it
\* returned, it issued the next request, or it threw err
Provision(next, r, err) ==
  IF next = "return" THEN StartUpload
  ELSE IF next = "throw" THEN
    /\ answer' = r
    /\ Throw(err)
    /\ UNCHANGED <<allFiles, i, attempt, task, batches>>
  ELSE
    /\ answer' = r
    /\ pc' = next
    /\ UNCHANGED <<allFiles, i, attempt, task, batches,
                   zipFile, extractDir, jobError, repoUrl>>

\* createRepoIfNotExists(): continuation on the existence check (lines 634-677)
LookupResponse ==
  /\ pc = "lookup"
  /\ \E r \in LookupAnswers :
       Provision(AfterLookup(r), r, CHECK_FAILED \o r.message)
  /\ UNCHANGED <<given, repos, store, workingDir>>

\* createRepoIfNotExists(): continuation on the creation request
CreateResponse ==
  /\ pc = "create"
  /\ \E r \in CreateAnswers :
       /\ repos' = ReposAfterCreate(r)
       /\ store' = StoreAfterCreate(r)
       /\ Provision(AfterCreate(r), r, CreateError(r))
  /\ UNCHANGED <<given, workingDir>>

\* createRepoIfNotExists(): continuation on the re-check (lines 712-723)
VerifyResponse ==
  /\ pc = "verify"
  /\ \E r \in VerifyAnswers :
       Provision(AfterVerify(r), r, NOT_ACCESSIBLE)
  /\ UNCHANGED <<given, repos, store, workingDir>>


(* ------------------------- the upload orchestrator -------------------- *)

\* the callbacks the pending Promise.all of uploadFileBatch waits for
Awaited(f, k) == pc = "batch" /\ f \in Slice(i, N) /\ k = Len(task[f])

\* a combinator fulfilled by the first callback that returns
AllFulfilled_any(tk, from) ==
  \E g \in Slice(from, Len(tk)) : tk[g][Len(tk[g])].pc = "done"

\* Promise.all: fulfilled once every callback of the batch has returned
AllFulfilled(tk, from) ==
  \A g \in Slice(from, Len(tk)) : tk[g][Len(tk[g])].pc = "done"

\* the test of the catch block of the batch loop (line 955)
IsRateLimitError(msg) == Includes(msg, RATE_LIMIT)

\* a catch block that retries on every rate-limit error
OnBatchRejected_retryAgain(msg) ==
  IF IsRateLimitError(msg)
  THEN /\ pc' = "backoff"
       /\ UNCHANGED <<i, attempt, batches, zipFile, extractDir, jobError, repoUrl>>
  ELSE /\ Throw(msg)
       /\ UNCHANGED <<i, attempt, batches>>

\* the batch loop after the awaited uploadFileBatch rejected with msg
OnBatchRejected(msg) ==
  IF attempt = 1 /\ IsRateLimitError(msg)
  THEN /\ pc' = "backoff"
       /\ UNCHANGED <<i, attempt, batches, zipFile, extractDir, jobError, repoUrl>>
  ELSE /\ Throw(msg)
       /\ UNCHANGED <<i, attempt, batches>>

\* the batch loop after the awaited uploadFileBatch was fulfilled
OnBatchFulfilled(tk) ==
  IF attempt = 1 /\ i + BATCH_SIZE < N
  THEN /\ pc' = "pause"
       /\ task' = tk
       /\ UNCHANGED <<i, attempt, batches, zipFile, extractDir, jobError, repoUrl>>
  ELSE Loop(i + BATCH_SIZE, tk, allFiles)

\* the answers to the request of callback k of file f: the contents
\* endpoint serves the accounts that may write to the repository
UpsertAnswers(f, k) ==
  IF CanWrite THEN Answers(store, allFiles[f], task[f][k])
  ELSE {Response(404, NOT_FOUND_MSG)}

\* The answer to the request of callback k of file f arrives: the store has
\* applied the request, the callback continues, and if that settles the
\* Promise.all the batch loop is waiting for, the loop continues as well.
TaskResponse(f, k) ==
  /\ Pending(task[f][k])
  /\ \E r \in UpsertAnswers(f, k) :
       LET t2 == TaskAfter(allFiles[f], task[f][k], r)
           tk == [task EXCEPT ![f][k] = t2]
       IN /\ store' = StoreAfter(store, allFiles[f], task[f][k], r)
          /\ IF Awaited(f, k) /\ t2.pc = "failed" THEN
               /\ task' = tk
               /\ OnBatchRejected(t2.err)
             ELSE IF Awaited(f, k) /\ AllFulfilled(tk, i) THEN
               OnBatchFulfilled(tk)
             ELSE
               /\ task' = tk
               /\ UNCHANGED <<pc, i, attempt, batches, zipFile, extractDir,
                              jobError, repoUrl>>
  /\ UNCHANGED <<given, repos, answer, workingDir, allFiles>>

\* the 200 ms timer between two batches fires (line 951)
PauseTimer ==
  /\ pc = "pause"
  /\ Loop(i + BATCH_SIZE, task, allFiles)
  /\ UNCHANGED <<given, repos, store, answer, workingDir, allFiles>>

\* the 2 s timer of the catch block fires: the batch is sent again (line 963)
BackoffTimer ==
  /\ pc = "backoff"
  /\ pc' = "batch"
  /\ attempt' = 2
  /\ task' = uploadFileBatch(task, allFiles, i)
  /\ batches' = Append(batches, [files |-> Slice(i, N), attempt |-> 2])
  /\ UNCHANGED <<given, repos, store, answer, workingDir, allFiles, i,
                 zipFile, extractDir, jobError, repoUrl>>

Next ==
  \/ Receive
  \/ ProbeResponse
  \/ DownloadResponse
  \/ LookupResponse
  \/ CreateResponse
  \/ VerifyResponse
  \/ \E f \in 1..Len(task) : \E k \in 1..Len(task[f]) : TaskResponse(f, k)
  \/ PauseTimer
  \/ BackoffTimer

Spec == Init /\ [][Next]_vars

(* ----------------------------- the classifier ------------------------- *)

\* String.prototype.endsWith and startsWith
EndsWith(s, t) == Len(t) <= Len(s) /\ SubSeq(s, Len(s) - Len(t) + 1, Len(s)) = t
StartsWith(s, t) == Len(t) <= Len(s) /\ SubSeq(s, 1, Len(t)) = t

\* index of the last "." of a file name, 0 if there is none
LastDot(fileName) ==
  IF \E k \in 1..Len(fileName) : fileName[k] = "."
  THEN CHOOSE k \in 1..Len(fileName) :
         fileName[k] = "." /\ \A j \in (k + 1)..Len(fileName) : fileName[j] # "."
  ELSE 0

\* path.extname of a file name: from the last dot on, empty if there is no
\* dot, if the only dot leads the name, or if the name is ".."
extname(fileName) ==
  IF LastDot(fileName) <= 1 \/ fileName = <<".", ".">> THEN <<>>
  ELSE SubSeq(fileName, LastDot(fileName), Len(fileName))

\* shouldSkipDirectory: skipDirs (lines 1176-1193)
skipDirs ==
  {<<".","g","i","t">>, <<"n","o","d","e","_","m","o","d","u","l","e","s">>,
   <<".","n","e","x","t">>, <<"d","i","s","t">>, <<"b","u","i","l","d">>,
   <<".","s","v","n">>, <<".","h","g">>,
   <<"_","_","p","y","c","a","c","h","e","_","_">>,
   <<".","p","y","t","e","s","t","_","c","a","c","h","e">>,
   <<".","c","o","v","e","r","a","g","e">>,
   <<".","n","y","c","_","o","u","t","p","u","t">>,
   <<"c","o","v","e","r","a","g","e">>, <<"t","m","p">>, <<"t","e","m","p">>,
   <<".","v","s","c","o","d","e">>, <<".","i","d","e","a">>}

\* shouldSkipFile: skipFiles (lines 1199-1210)
skipFiles ==
  {<<".","D","S","_","S","t","o","r","e">>,
   <<"T","h","u","m","b","s",".","d","b">>,
   <<"d","e","s","k","t","o","p",".","i","n","i">>, <<"*",".","l","o","g">>,
   <<"*",".","t","m","p">>, <<"*",".","t","e","m","p">>, <<".","e","n","v">>,
   <<".","e","n","v",".","l","o","c","a","l">>,
   <<".","e","n","v",".","p","r","o","d","u","c","t","i","o","n">>,
   <<".","e","n","v",".","d","e","v","e","l","o","p","m","e","n","t">>}

\* isTextFile: textExtensions (lines 1226-1319)
textExtensions ==
  {<<".","j","s">>, <<".","j","s","x">>, <<".","t","s">>,
   <<".","t","s","x">>, <<".","v","u","e">>, <<".","s","v","e","l","t","e">>,
   <<".","a","s","t","r","o">>, <<".","h","t","m","l">>, <<".","h","t","m">>,
   <<".","x","m","l">>, <<".","s","v","g">>, <<".","c","s","s">>,
   <<".","s","c","s","s">>, <<".","s","a","s","s">>, <<".","l","e","s","s">>,
   <<".","s","t","y","l","u","s">>, <<".","j","s","o","n">>,
   <<".","j","s","o","n","c">>, <<".","j","s","o","n","5">>,
   <<".","m","j","s">>, <<".","c","j","s">>, <<".","e","s","m">>,
   <<".","c","o","n","f","i","g",".","j","s">>,
   <<".","c","o","n","f","i","g",".","t","s">>,
   <<".","c","o","n","f","i","g",".","m","j","s">>,
   <<".","c","o","n","f","i","g",".","c","j","s">>, <<".","m","d">>,
   <<".","m","d","x">>, <<".","t","x","t">>, <<".","r","s","t">>,
   <<".","p","y">>, <<".","j","a","v","a">>, <<".","c","p","p">>,
   <<".","c">>, <<".","h">>, <<".","c","s">>, <<".","p","h","p">>,
   <<".","r","b">>, <<".","g","o">>, <<".","r","s">>,
   <<".","s","w","i","f","t">>, <<".","k","t">>, <<".","s","c","a","l","a">>,
   <<".","d","a","r","t">>, <<".","l","u","a">>, <<".","s","h">>,
   <<".","b","a","s","h">>, <<".","z","s","h">>, <<".","f","i","s","h">>,
   <<".","p","s","1">>, <<".","c","m","d">>, <<".","b","a","t">>,
   <<".","y","m","l">>, <<".","y","a","m","l">>, <<".","t","o","m","l">>,
   <<".","i","n","i">>, <<".","c","f","g">>, <<".","c","o","n","f">>,
   <<".","p","r","o","p","e","r","t","i","e","s">>, <<".","c","s","v">>,
   <<".","t","s","v">>, <<".","s","q","l">>,
   <<".","e","n","v",".","e","x","a","m","p","l","e">>,
   <<".","e","n","v",".","t","e","m","p","l","a","t","e">>,
   <<".","e","n","v",".","s","a","m","p","l","e">>,
   <<".","g","i","t","i","g","n","o","r","e">>,
   <<".","g","i","t","a","t","t","r","i","b","u","t","e","s">>,
   <<".","e","d","i","t","o","r","c","o","n","f","i","g">>,
   <<".","p","r","e","t","t","i","e","r","r","c">>,
   <<".","e","s","l","i","n","t","r","c">>,
   <<".","b","a","b","e","l","r","c">>,
   <<".","b","r","o","w","s","e","r","s","l","i","s","t","r","c">>,
   <<".","n","p","m","r","c">>, <<".","n","v","m","r","c">>,
   <<".","m","a","p">>}

\* isTextFile: textFileNames (lines 1326-1344)
textFileNames ==
  {<<"r","e","a","d","m","e">>, <<"l","i","c","e","n","s","e">>,
   <<"c","h","a","n","g","e","l","o","g">>,
   <<"c","o","n","t","r","i","b","u","t","i","n","g">>,
   <<"a","u","t","h","o","r","s">>, <<"c","o","p","y","i","n","g">>,
   <<"i","n","s","t","a","l","l">>, <<"n","e","w","s">>, <<"t","o","d","o">>,
   <<"m","a","k","e","f","i","l","e">>,
   <<"d","o","c","k","e","r","f","i","l","e">>,
   <<"p","r","o","c","f","i","l","e">>, <<"r","a","k","e","f","i","l","e">>,
   <<"g","e","m","f","i","l","e">>, <<"g","u","a","r","d","f","i","l","e">>,
   <<"g","r","u","n","t","f","i","l","e">>,
   <<"g","u","l","p","f","i","l","e">>}


DOT_LOG == <<".","l","o","g">>
CHANGELOG == <<"c","h","a","n","g","e","l","o","g">>
CONFIG == <<"c","o","n","f","i","g">>
RC == <<"r","c">>
IGNORE == <<"i","g","n","o","r","e">>
LINT == <<"l","i","n","t">>

\* extensions of the special config file pattern (line 1356)
configExtensions ==
  {<<".","j","s">>, <<".","t","s">>, <<".","m","j","s">>, <<".","c","j","s">>}

\* shouldSkipDirectory(dirName)
shouldSkipDirectory(dirName) == dirName \in skipDirs

\* shouldSkipFile(fileName)
shouldSkipFile(fileName) ==
  \/ fileName \in skipFiles
  \/ EndsWith(fileName, DOT_LOG) /\ ~Includes(fileName, CHANGELOG)

\* isTextFile(fileName)
isTextFile(fileName) ==
  LET ext == ToLower(extname(fileName))
      fullName == ToLower(fileName)
  IN IF ext = <<>>
     THEN \E name \in textFileNames : Includes(fullName, name)
     ELSE \/ ext \in textExtensions
          \/ Includes(fullName, CONFIG) /\ ext \in configExtensions
          \/ /\ StartsWith(fileName, <<".">>)
             /\ \/ Includes(fullName, RC)
                \/ Includes(fullName, CONFIG)
                \/ Includes(fullName, IGNORE)
                \/ Includes(fullName, LINT)

\* a sample that is never looked at
isBinaryFile_unsampled(entry) == entry.kind = "noread"

\* isBinaryFile(filePath): a null byte among the first SAMPLE_BYTES bytes,
\* or a file that cannot be read
isBinaryFile(entry) ==
  \/ entry.kind = "noread"
  \/ \E k \in 1..Min(SAMPLE_BYTES, Len(entry.bytes)) : entry.bytes[k] = 0

\* number of continuation bytes (128..191) at the head of bytes, at most n
RECURSIVE Continuations(_, _)
Continuations(bytes, n) ==
  IF n = 0 \/ bytes = <<>> \/ Head(bytes) < 128 \/ Head(bytes) > 191 THEN 0
  ELSE 1 + Continuations(Tail(bytes), n - 1)

\* continuation bytes a lead byte announces: -1 for a byte that cannot lead
Announced(b) ==
  IF b < 128 THEN 0
  ELSE IF b >= 194 /\ b <= 223 THEN 1
  ELSE IF b >= 224 /\ b <= 239 THEN 2
  ELSE IF b >= 240 /\ b <= 244 THEN 3
  ELSE -1

\* U+FFFD, which the decoder puts in place of malformed input
REPLACEMENT == 65533

\* the payload of continuation byte k of bytes
Payload(bytes, k) == bytes[k] - 128

\* the UTF-16 code units of code point cp
CodeUnits(cp) ==
  IF cp < 65536 THEN <<cp>>
  ELSE <<55296 + ((cp - 65536) \div 1024), 56320 + ((cp - 65536) % 1024)>>

\* fs.readFileSync(filePath, "utf-8"): the UTF-16 code units of the decoded
\* text.  A lead byte with the continuation bytes it announces is one code
\* point; a byte that cannot lead, or a sequence cut short, is one
\* replacement character (overlong and surrogate encodings are not told
\* apart from valid ones).
RECURSIVE Utf8Decode(_)
Utf8Decode(bytes) ==
  IF bytes = <<>> THEN <<>>
  ELSE
    LET b == Head(bytes)
        n == Announced(b)
        got == IF n <= 0 THEN 0 ELSE Continuations(Tail(bytes), n)
        rest == SubSeq(bytes, 2 + got, Len(bytes))
        cp == IF n = 1 THEN (b - 192) * 64 + Payload(bytes, 2)
              ELSE IF n = 2 THEN (b - 224) * 4096 + Payload(bytes, 2) * 64
                                   + Payload(bytes, 3)
              ELSE (b - 240) * 262144 + Payload(bytes, 2) * 4096
                     + Payload(bytes, 3) * 64 + Payload(bytes, 4)
    IN IF n = 0 THEN <<b>> \o Utf8Decode(rest)
       ELSE IF n = -1 \/ got < n THEN <<REPLACEMENT>> \o Utf8Decode(rest)
       ELSE CodeUnits(cp) \o Utf8Decode(rest)

\* the test of a relative path the walk refuses (lines 1439-1443)
InvalidPath(relativePath) ==
  \/ relativePath = <<>>
  \/ Includes(relativePath, <<".", ".">>)
  \/ StartsWith(relativePath, <<"/">>)

\* getRecursiveCalls(dir, root): the files of the entries items of a
\* directory whose path relative to root is base.  An entry whose stat
\* fails ("nostat") and a directory that cannot be listed ("nolist") are
\* logged and passed over.
RECURSIVE getRecursiveCalls(_, _)
getRecursiveCalls(items, base) ==
  IF items = <<>> THEN <<>>
  ELSE
    LET file == Head(items)
        relativePath == IF base # <<>>
                        THEN base \o <<"/">> \o file.name
                        ELSE file.name
        content == Utf8Decode(file.bytes)
    IN (IF file.kind = "dir" THEN
          IF shouldSkipDirectory(file.name) THEN <<>>
          ELSE getRecursiveCalls(file.items, relativePath)
        ELSE IF file.kind \in {"file", "noread"} THEN
          IF \/ shouldSkipFile(file.name)
             \/ ~isTextFile(file.name)
             \/ isBinaryFile(file)
             \/ InvalidPath(relativePath)
             \/ Len(content) > MAX_CONTENT
          THEN <<>>
          ELSE <<[relativePath |-> relativePath, content |-> content]>>
        ELSE <<>>)
       \o getRecursiveCalls(Tail(items), base)

(* ---------------- createRepoIfNotExists called directly --------------- *)

\* A caller that invokes createRepoIfNotExists(token, repoName, username)
\* up to MaxEnsureCalls times in a row and keeps what each call requested
\* and how it ended.
EnsureInit ==
  /\ mySbMsg \in {Message("object", u, ZIP_URL, <<"r">>, t) :
                    u \in {<<"u">>, <<"U">>, <<"v">>},
                    t \in {TOKEN_U, TOKEN_V, TOKEN_X}}
  /\ archive = FlatTree(1)
  /\ repos \in SUBSET {<<"u">>, <<"v">>}
  /\ store = <<>>
  /\ pc = "idle"
  /\ Idle

Request(kind) == [kind |-> kind, answer |-> NoResponse]

\* the call is entered: the existence check is requested (lines 623-632)
EnsureCall ==
  /\ pc = "idle"
  /\ Len(ensureLog) < MaxEnsureCalls
  /\ pc' = "lookup"
  /\ ensureLog' = Append(ensureLog,
       [requests |-> <<Request("lookup")>>, result |-> "pending",
        handle |-> <<>>, error |-> <<>>])
  /\ UNCHANGED <<mySbMsg, archive, repos, store, store0, zipFile, extractDir,
                 workingDir, answer, allFiles, i, attempt, task, batches,
                 jobError, repoUrl, others>>

\* the call in progress received r: it returns the record, throws err, or
\* issues the next request
Ensured(next, r, err) ==
  LET k == Len(ensureLog)
      n == Len(ensureLog[k].requests)
      answered == [ensureLog[k] EXCEPT !.requests[n].answer = r]
  IN /\ answer' = r
     /\ IF next = "return" THEN
          /\ pc' = "idle"
          /\ ensureLog' = [ensureLog EXCEPT ![k] =
               [answered EXCEPT !.result = "returned", !.handle = r.full_name]]
        ELSE IF next = "throw" THEN
          /\ pc' = "idle"
          /\ ensureLog' = [ensureLog EXCEPT ![k] =
               [answered EXCEPT !.result = "threw", !.error = err]]
        ELSE
          /\ pc' = next
          /\ ensureLog' = [ensureLog EXCEPT ![k] =
               [answered EXCEPT !.requests = Append(@, Request(next))]]
     /\ UNCHANGED <<mySbMsg, archive, store0, zipFile, extractDir, workingDir,
                    allFiles, i, attempt, task, batches, jobError, repoUrl,
                    others>>

\* continuation on the existence check (lines 634-677)
EnsureLookupResponse ==
  /\ pc = "lookup"
  /\ ensureLog # <<>>
  /\ \E r \in LookupAnswers :
       Ensured(AfterLookup(r), r, CHECK_FAILED \o r.message)
  /\ UNCHANGED <<repos, store>>

\* continuation on the creation request (lines 679-739)
EnsureCreateResponse ==
  /\ pc = "create"
  /\ ensureLog # <<>>
  /\ \E r \in CreateAnswers :
       /\ repos' = ReposAfterCreate(r)
       /\ store' = StoreAfterCreate(r)
       /\ Ensured(AfterCreate(r), r, CreateError(r))

\* continuation on the re-check (lines 712-723)
EnsureVerifyResponse ==
  /\ pc = "verify"
  /\ ensureLog # <<>>
  /\ \E r \in VerifyAnswers :
       Ensured(AfterVerify(r), r, NOT_ACCESSIBLE)
  /\ UNCHANGED <<repos, store>>

\* another client of the token's account creates the repository while the
\* creation request of the call is on its way
OtherCreator ==
  /\ pc = "create"
  /\ ensureLog # <<>>
  /\ TokenOwner(mySbMsg.authToken) # <<>>
  /\ TokenOwner(mySbMsg.authToken) \notin repos
  /\ repos' = repos \cup {TokenOwner(mySbMsg.authToken)}
  /\ UNCHANGED <<mySbMsg, archive, store, store0, zipFile, extractDir,
                 workingDir, pc, answer, allFiles, i, attempt, task, batches,
                 jobError, repoUrl, ensureLog, others>>

EnsureNext ==
  \/ EnsureCall
  \/ EnsureLookupResponse
  \/ EnsureCreateResponse
  \/ EnsureVerifyResponse
  \/ OtherCreator

EnsureSpec == EnsureInit /\ [][EnsureNext]_vars

(* ------------------- the validator on generated names ----------------- *)

NameAlphabet == {"a", "P", "1", "_", ".", "-", "<", " "}

Repeat(c, n) == [k \in 1..n |-> c]

\* names at the length limit, reserved words, quotes, and inner patterns
SpecialNames ==
  {Repeat("a", 100), Repeat("a", 101),
   <<" ">> \o Repeat("a", 100) \o <<"\n">>, <<"\t">> \o Repeat("a", 101),
   <<"a","p","i">>, <<"A","p","I">>, <<"G","i","t","H","u","b">>,
   <<"h","e","l","p"," ">>, <<"h","e","l","p","s">>,
   <<"a",".",".","b">>, <<"a",".","b","-","c">>, EVIL,
   <<"a","'","b">>, <<"a","\"","b">>, <<"a",GRAVE,"b">>, <<"a",">","b">>,
   <<"d","a","t","a",":">>, <<"d","a","t","a">>, <<"a"," ","b">>, <<"\t","r","\n">>}

GeneratedNames ==
  UNION {[1..n -> NameAlphabet] : n \in 0..MaxNameLen} \cup SpecialNames

\* the processor is invoked with a complete message holding a generated name
ValidatorInit ==
  /\ mySbMsg \in {Message("object", <<"u">>, ZIP_URL, name, TOKEN_U) :
                    name \in GeneratedNames}
  /\ archive = FlatTree(1)
  /\ repos = {}
  /\ store = <<>>
  /\ pc = "received"
  /\ Idle

ValidatorSpec == ValidatorInit /\ [][Receive]_vars


(* ------------ classifier, stripper and unwrapping on generated trees -- *)

\* an entry whose stat fails, a file that cannot be read, and a directory
\* that cannot be listed
NoStat(n) == [name |-> n, kind |-> "nostat", bytes |-> <<>>, items |-> <<>>]
NoRead(n) == [name |-> n, kind |-> "noread", bytes |-> <<>>, items |-> <<>>]
NoList(n) == [name |-> n, kind |-> "nolist", bytes |-> <<>>, items |-> <<>>]

\* file contents sized relative to the two limits of the classifier
Clean == <<97>>
NullInSample == [k \in 1..SAMPLE_BYTES |-> IF k = SAMPLE_BYTES THEN 0 ELSE 97]
NullAfterSample ==
  [k \in 1..(SAMPLE_BYTES + 1) |-> IF k = SAMPLE_BYTES + 1 THEN 0 ELSE 97]
LongestText == [k \in 1..MAX_CONTENT |-> 97]
TooLong == [k \in 1..(MAX_CONTENT + 1) |-> 97]
\* MAX_CONTENT euro signs, three bytes each
WideText == [k \in 1..(3 * MAX_CONTENT) |-> <<226, 130, 172>>[((k - 1) % 3) + 1]]
\* a four-byte character, a byte that cannot lead and a sequence cut short
Astral == <<240, 159, 152, 128, 255, 226, 130>>

A_JS == <<"a",".","j","s">>
W_YML == <<"w",".","y","m","l">>

GeneratedFiles ==
  {File(A_JS, Clean),
   File(<<"n",".","j","s">>, NullInSample),
   File(<<"m",".","j","s">>, NullAfterSample),
   File(<<"l",".","j","s">>, LongestText),
   File(<<"o",".","j","s">>, TooLong),
   File(<<"w",".","j","s">>, WideText),
   File(<<"z",".","j","s">>, Astral),
   File(<<"b",".","p","n","g">>, Clean),
   File(<<".","e","n","v">>, Clean),
   File(DOT_GITHUB, Clean),
   NoRead(<<"r",".","j","s">>),
   NoStat(<<"x",".","j","s">>)}

GeneratedDirs ==
  {Dir(NODE_MODULES, <<File(A_JS, Clean)>>),
   Dir(<<"s">>, <<File(A_JS, Clean)>>),
   Dir(<<"t">>, <<Dir(<<"d","i","s","t">>, <<File(A_JS, Clean)>>),
                  File(<<"n",".","j","s">>, NullInSample)>>),
   Dir(<<"p">>, <<Dir(<<"q">>, <<File(A_JS, Clean)>>)>>),
   Dir(DOT_GITHUB, <<File(W_YML, Clean)>>),
   Dir(<<"g">>, <<Dir(DOT_GITHUB, <<File(W_YML, Clean)>>), File(A_JS, Clean)>>),
   Dir(<<"v">>, <<NoStat(<<"x",".","j","s">>), File(A_JS, Clean)>>),
   Dir(<<"e">>, <<>>),
   NoList(<<"u">>)}

\* the entries of a directory bear distinct names
DistinctNames(items) ==
  \A j, k \in 1..Len(items) : j # k => items[j].name # items[k].name

\* extraction roots of at most MaxEntries entries
GeneratedTrees ==
  {Dir(<<>>, items) :
     items \in {its \in UNION {[1..n -> GeneratedFiles \cup GeneratedDirs] :
                                  n \in 0..MaxEntries} : DistinctNames(its)}}

TreeInit ==
  /\ mySbMsg = StandardMessage
  /\ archive \in GeneratedTrees
  /\ repos = {}
  /\ store = <<>>
  /\ pc = "tree"
  /\ Idle

\* getRecursiveCalls(dir) is called on the tree (line 1498)
Classify ==
  /\ pc = "tree"
  /\ allFiles' = getRecursiveCalls(archive.items, <<>>)
  /\ pc' = "classified"
  /\ UNCHANGED <<given, repos, store, zipFile, extractDir, workingDir, answer,
                 i, attempt, task, batches, jobError, repoUrl>>

\* removeWorkflowFiles(dir) is called on the tree and upload() branches on
\* its return value (lines 1012-1015)
Strip ==
  /\ pc = "tree"
  /\ workingDir' = removeWorkflowFiles(archive)
  /\ pc' = IF removedWorkflows(archive) THEN "removed" ELSE "kept"
  /\ UNCHANGED <<given, repos, store, zipFile, extractDir, allFiles, answer,
                 i, attempt, task, batches, jobError, repoUrl>>

\* upload() picks the effective working directory (lines 998-1009); the
\* stat of the only entry may throw
Unwrap ==
  /\ pc = "tree"
  /\ IF Len(archive.items) = 1 /\ archive.items[1].kind = "nostat"
     THEN /\ pc' = "threw"
          /\ UNCHANGED workingDir
     ELSE /\ pc' = "unwrapped"
          /\ workingDir' = ContentRoot(archive)
  /\ UNCHANGED <<given, repos, store, zipFile, extractDir, allFiles, answer,
                 i, attempt, task, batches, jobError, repoUrl>>

TreeNext ==
  \/ Classify
  \/ Strip
  \/ Unwrap

TreeSpec == TreeInit /\ [][TreeNext]_vars

(* ------------------- the atomic-commit strategy: helloTree ------------ *)

CREATE_REPO == "POST /user/repos"
GET_REF == "GET git/ref/heads/main"
POST_TREES == "POST git/trees"
POST_COMMITS == "POST git/commits"
PATCH_REF == "PATCH git/refs/heads/main"

INITIAL_COMMIT == "Initial commit"
COMMIT_MESSAGE == "successful initial commit"
OTHER_COMMIT == "pushed by another client"

\* git objects; the sha of an object is its position in the object database
Tree(entries) ==
  [type |-> "tree", entries |-> entries, tree |-> NoObject, parents |-> <<>>,
   message |-> ""]
Commit(tree, parents, message) ==
  [type |-> "commit", entries |-> <<>>, tree |-> tree, parents |-> parents,
   message |-> message]

\* the repository as auto_init: true leaves it (line 1487): one commit
\* holding a README.md
AutoInit ==
  [exists |-> TRUE,
   objects |-> <<Tree(<<[relativePath |-> README_MD, content |-> <<35, 32, 103>>]>>),
                 Commit(1, <<>>, INITIAL_COMMIT)>>,
   main |-> 2]

\* the file another client pushes
OtherTree == Tree(<<[relativePath |-> <<"o">>, content |-> <<111>>]>>)

\* the contents of the directory helloTree publishes (line 1498)
HelloTrees == {t \in GeneratedTrees : Len(t.items) <= 1} \cup {ScenarioTree}

\* a request of helloTree on its way
Call(request, entries, sha, parents) ==
  [request |-> request, entries |-> entries, sha |-> sha, parents |-> parents,
   status |-> 0, data |-> NoObject]

\* a is c or an ancestor of c
RECURSIVE IsAncestor(_, _, _)
IsAncestor(objects, a, c) ==
  \/ a = c
  \/ /\ c \in DOMAIN objects
     /\ \E k \in DOMAIN objects[c].parents :
          IsAncestor(objects, a, objects[c].parents[k])

\* the reference update is refused unless it is a fast-forward (force is not
\* set in the request, lines 1523-1528)
FastForward(sha) ==
  /\ git.exists
  /\ sha \in DOMAIN git.objects
  /\ git.objects[sha].type = "commit"
  /\ IsAncestor(git.objects, git.main, sha)

\* the commit objects a creation request may name exist
CommitAccepted(call) ==
  /\ git.exists
  /\ call.sha \in DOMAIN git.objects
  /\ git.objects[call.sha].type = "tree"
  /\ \A k \in DOMAIN call.parents :
       /\ call.parents[k] \in DOMAIN git.objects
       /\ git.objects[call.parents[k]].type = "commit"

Proceed_swallowed(status, next) == next

\* octokit.request throws on a status of 400 and above and helloTree
\* catches nothing: the awaits after it are never reached (lines 1484-1531)
Proceed(status, next) == IF status >= 400 THEN "failed" ELSE next

\* the branch tip the run read at its start (line 1495)
parentSha == IF Len(wire) >= 2 THEN wire[2].data ELSE NoObject

\* the response to the request on its way arrived
Respond(status, data, gitAfter, nextCall) ==
  LET answered == [wire EXCEPT ![Len(wire)].status = status,
                               ![Len(wire)].data = data]
      next == Proceed(status, nextCall.request)
  IN /\ git' = gitAfter
     /\ pc' = next
     /\ wire' = IF next \in {"failed", "done"} THEN answered
                ELSE Append(answered, nextCall)
     /\ UNCHANGED <<mySbMsg, archive, repos, store, store0, zipFile,
                    extractDir, workingDir, answer, i, attempt, task, batches,
                    jobError, repoUrl, ensureLog, attempts, clock, tempDir,
                    jobs, req, queue, res, github>>

CommitInit ==
  /\ mySbMsg = StandardMessage
  /\ archive \in HelloTrees
  /\ repos = {}
  /\ store = <<>>
  /\ pc = "hello"
  /\ Idle

\* helloTree is called (line 1534) and requests the repository (line 1484)
HelloTree ==
  /\ pc = "hello"
  /\ pc' = CREATE_REPO
  /\ wire' = <<Call(CREATE_REPO, <<>>, NoObject, <<>>)>>
  /\ UNCHANGED <<mySbMsg, archive, repos, store, store0, zipFile, extractDir,
                 workingDir, answer, allFiles, i, attempt, task, batches,
                 jobError, repoUrl, ensureLog, attempts, git, clock, tempDir,
                 jobs, req, queue, res, github>>

\* lines 1484-1492: the repository is created unless the name is taken
RepoCreated ==
  /\ pc = CREATE_REPO
  /\ \E status \in (IF git.exists THEN {422} ELSE {201, 500}) :
       Respond(status, NoObject, IF status = 201 THEN AutoInit ELSE git,
               Call(GET_REF, <<>>, NoObject, <<>>))
  /\ UNCHANGED allFiles

\* lines 1490-1512: the tip is read, the directory is classified and the
\* tree is requested
RefRead ==
  /\ pc = GET_REF
  /\ \E status \in (IF git.exists THEN {200, 500} ELSE {404}) :
       LET filesEncoded == getRecursiveCalls(archive.items, <<>>)
       IN /\ Respond(status, IF status = 200 THEN git.main ELSE NoObject, git,
                     Call(POST_TREES, filesEncoded, NoObject, <<>>))
          /\ allFiles' = IF Proceed(status, POST_TREES) = "failed"
                         THEN allFiles ELSE filesEncoded

\* lines 1507-1521: the tree object is created and the commit is requested
TreeCreated ==
  /\ pc = POST_TREES
  /\ \E status \in (IF git.exists THEN {201, 422} ELSE {404}) :
       LET sha == IF status = 201 THEN Len(git.objects) + 1 ELSE NoObject
       IN /\ Respond(status, sha,
                     IF status = 201
                     THEN [git EXCEPT !.objects =
                             Append(@, Tree(wire[Len(wire)].entries))]
                     ELSE git,
                     Call(POST_COMMITS, <<>>, sha, <<parentSha>>))
          /\ UNCHANGED allFiles

\* lines 1514-1528: the commit object is created and the reference update
\* is requested
CommitCreated ==
  /\ pc = POST_COMMITS
  /\ LET call == wire[Len(wire)]
     IN \E status \in (IF CommitAccepted(call) THEN {201, 500} ELSE {422}) :
          LET sha == IF status = 201 THEN Len(git.objects) + 1 ELSE NoObject
          IN /\ Respond(status, sha,
                        IF status = 201
                        THEN [git EXCEPT !.objects =
                                Append(@, Commit(call.sha, call.parents,
                                                 COMMIT_MESSAGE))]
                        ELSE git,
                        Call(PATCH_REF, <<>>, sha, <<>>))
             /\ UNCHANGED allFiles

\* lines 1523-1530: the branch is moved if the update is a fast-forward
RefUpdated ==
  /\ pc = PATCH_REF
  /\ LET call == wire[Len(wire)]
     IN \E status \in (IF FastForward(call.sha) THEN {200, 500} ELSE {422}) :
          /\ Respond(status, IF status = 200 THEN call.sha ELSE NoObject,
                     IF status = 200 THEN [git EXCEPT !.main = call.sha]
                     ELSE git,
                     Call("done", <<>>, NoObject, <<>>))
          /\ UNCHANGED allFiles

\* another client creates the repository before the run does
OtherInit ==
  /\ pc \in {"hello", CREATE_REPO}
  /\ ~git.exists
  /\ git' = AutoInit
  /\ UNCHANGED <<mySbMsg, archive, repos, store, store0, zipFile, extractDir,
                 workingDir, pc, answer, allFiles, i, attempt, task, batches,
                 jobError, repoUrl, ensureLog, attempts, wire, clock, tempDir,
                 jobs, req, queue, res, github>>

\* another client pushes a commit to the branch
OtherPush ==
  /\ git.exists
  /\ pc \notin {"hello", "done", "failed"}
  /\ Cardinality({k \in DOMAIN git.objects :
                    git.objects[k].message = OTHER_COMMIT}) < MaxPushes
  /\ git' = [git EXCEPT
       !.objects = @ \o <<OtherTree,
                          Commit(Len(@) + 1, <<git.main>>, OTHER_COMMIT)>>,
       !.main = Len(git.objects) + 2]
  /\ UNCHANGED <<mySbMsg, archive, repos, store, store0, zipFile, extractDir,
                 workingDir, pc, answer, allFiles, i, attempt, task, batches,
                 jobError, repoUrl, ensureLog, attempts, wire, clock, tempDir,
                 jobs, req, queue, res, github>>

CommitNext ==
  \/ HelloTree
  \/ RepoCreated
  \/ RefRead
  \/ TreeCreated
  \/ CommitCreated
  \/ RefUpdated
  \/ OtherInit
  \/ OtherPush

CommitSpec == CommitInit /\ [][CommitNext]_vars

(* --------------- scratch files of jobs running side by side ----------- *)

\* path.join(TEMP_DIR, `download-${Date.now()}.zip`) and
\* path.join(TEMP_DIR, `unzipped-${Date.now()}`) (lines 747-748)
zipPath(now) == [kind |-> "download", stamp |-> now]
extractPath(now) == [kind |-> "unzipped", stamp |-> now]

\* an entry of TEMP_DIR: its name, its modification time and the jobs that
\* wrote into it
Entry(name, mtime, writers) ==
  [name |-> name, mtime |-> mtime, writers |-> writers]

\* what a process that died during a job left behind, before the clock of
\* the model starts at 1
Stale == Entry(extractPath(0), 0, {0})

\* fs.rmSync / fs.unlinkSync of a path, if it exists
Remove(dir, name) == {e \in dir : e.name # name}

\* the start-of-job sweep (lines 977-993)
Sweep(dir, now) == {e \in dir : ~(now - e.mtime > oneHour)}

\* zip.extractAllTo(extractPath, true) by job j (line 770): the folder is
\* created, or written into if it is there already
Extract(dir, name, now, j) ==
  LET before == {e \in dir : e.name = name}
  IN Remove(dir, name)
       \cup {Entry(name, now, {j} \cup UNION {e.writers : e \in before})}

ScratchInit ==
  /\ mySbMsg = StandardMessage
  /\ archive = FlatTree(1)
  /\ repos = {}
  /\ store = <<>>
  /\ pc = "host"
  /\ JobIdle
  /\ attempts = 0
  /\ wire = <<>>
  /\ git = NoGit
  /\ clock = 1
  /\ tempDir \in {{}, {Stale}}
  /\ jobs = <<>>
  /\ req = NoRequest
  /\ queue = <<>>
  /\ res = NoRes
  /\ github = {}

\* what the steps of the scratch files leave alone
scratchFrame == <<mySbMsg, archive, repos, store, store0, zipFile, extractDir,
                  workingDir, pc, answer, allFiles, i, attempt, task, batches,
                  jobError, repoUrl, ensureLog, attempts, wire, git, req,
                  queue, res, github>>

\* upload() is called for one more job: the sweep runs, downloadAndExtractZip
\* names its paths and requests the archive (lines 974-758)
UploadStarts ==
  /\ Len(jobs) < MaxJobs
  /\ tempDir' = Sweep(tempDir, clock)
  /\ jobs' = Append(jobs, [pc |-> "fetch", zipPath |-> zipPath(clock),
                           extractPath |-> extractPath(clock)])
  /\ UNCHANGED <<scratchFrame, clock>>

\* the archive of job j arrived: it is written, extracted and the zip file
\* removed in one turn (lines 764-773)
Extracted ==
  \E j \in DOMAIN jobs :
    /\ jobs[j].pc = "fetch"
    /\ tempDir' = Extract(tempDir, jobs[j].extractPath, clock, j)
    /\ jobs' = [jobs EXCEPT ![j].pc = "uploading"]
    /\ UNCHANGED <<scratchFrame, clock>>

\* the download of job j failed or its archive could not be extracted: the
\* catch block removes both paths if they exist (lines 774-784); upload()
\* has no extractPath to remove (lines 1063-1072)
DownloadFailed ==
  \E j \in DOMAIN jobs :
    /\ jobs[j].pc = "fetch"
    /\ tempDir' = Remove(Remove(tempDir, jobs[j].zipPath), jobs[j].extractPath)
    /\ jobs' = [jobs EXCEPT ![j].pc = "failed"]
    /\ UNCHANGED <<scratchFrame, clock>>

\* upload() of job j returns or throws: the finally block removes the
\* extraction folder (lines 1063-1072)
Finished ==
  \E j \in DOMAIN jobs :
    /\ jobs[j].pc = "uploading"
    /\ tempDir' = Remove(tempDir, jobs[j].extractPath)
    /\ jobs' = [jobs EXCEPT ![j].pc = "done"]
    /\ UNCHANGED <<scratchFrame, clock>>

\* Date.now() advances
Tick ==
  /\ clock < MaxClock
  /\ clock' = clock + 1
  /\ UNCHANGED <<scratchFrame, tempDir, jobs>>

ScratchNext ==
  \/ UploadStarts
  \/ Extracted
  \/ DownloadFailed
  \/ Finished
  \/ Tick

ScratchSpec == ScratchInit /\ [][ScratchNext]_vars

(* ------------------------- the intake endpoint ------------------------ *)

MAX_REPO_NAME == 100
MAX_URL == 2048

\* values of the fields of req.body
Str(text) == [type |-> "string", text |-> text]
Undefined == [type |-> "undefined", text |-> <<>>]
Number == [type |-> "number", text |-> <<>>]

\* a value that !v does not refuse: a non-empty string or the number
Truthy(v) == v.type = "number" \/ (v.type = "string" /\ v.text # <<>>)

AlphaNumeric(c) ==
  \/ \E j \in 1..Len(UPPER) : c = UPPER[j] \/ c = LOWER[j]
  \/ c \in DIGITS

\* /^[a-zA-Z0-9]([a-zA-Z0-9._-]*[a-zA-Z0-9])?$/ (line 40)
githubRepoRegex(s) ==
  /\ Len(s) >= 1
  /\ AlphaNumeric(s[1])
  /\ AlphaNumeric(s[Len(s)])
  /\ \A k \in 1..Len(s) : AlphaNumeric(s[k]) \/ s[k] \in {".", "_", "-"}

\* dangerousPatterns (lines 51-57)
dangerousPatterns(s) ==
  \/ \E k \in 1..Len(s) :
       s[k] \in {";", "&", "|", GRAVE, "$", "(", ")", "{", "}", "[", "]", "\\"}
  \/ Includes(s, <<".", ".">>)
  \/ (Len(s) >= 1 /\ s[1] = "-")
  \/ \E k \in 1..Len(s) : s[k] \in WHITESPACE
  \/ \E k \in 1..Len(s) : s[k] \in {"'", "\"", GRAVE}

\* reservedNames (line 69)
reservedNames ==
  {<<"c","o","n">>, <<"p","r","n">>, <<"a","u","x">>, <<"n","u","l">>,
   <<".">>, <<".", ".">>, <<"g","i","t">>}

Invalid == [isValid |-> FALSE, sanitized |-> <<>>]
Valid(trimmed) == [isValid |-> TRUE, sanitized |-> trimmed]

\* validateRepoName(repoName) of the intake endpoint (lines 22-80)
validateRepoName(repoName) ==
  IF repoName.type # "string" THEN Invalid
  ELSE LET trimmed == Trim(repoName.text)
       IN IF \/ trimmed = <<>>
             \/ Len(trimmed) > MAX_REPO_NAME
             \/ ~githubRepoRegex(trimmed)
             \/ dangerousPatterns(trimmed)
             \/ ToLower(trimmed) \in reservedNames
          THEN Invalid
          ELSE Valid(trimmed)

\* the schemes the URL parser demands a host for
SpecialSchemes ==
  {<<"h","t","t","p">>, <<"h","t","t","p","s">>, <<"f","t","p">>,
   <<"w","s">>, <<"w","s","s">>}

\* code points the URL parser refuses in a host
ForbiddenInHost == {" ", "<", ">", "^", "|", "[", "]", "\"", "%"}

NoUrl == [ok |-> FALSE, protocol |-> <<>>, host |-> <<>>]

\* new URL(s) without a base (line 102): the scheme ends at the first ":",
\* starts with a letter and is lower-cased; a special scheme is followed by
\* any number of slashes and a host, which must not be empty.  Credentials,
\* ports, percent-encoding and numeric hosts do not occur in the model.
URL(s) ==
  LET colon == FirstOf(s, {":"})
      scheme == SubSeq(s, 1, colon - 1)
      rest == SubSeq(s, colon + 1, Len(s))
      slashes == IF \A k \in 1..Len(rest) : rest[k] \in {"/", "\\"}
                 THEN Len(rest)
                 ELSE (CHOOSE k \in 1..Len(rest) :
                         /\ rest[k] \notin {"/", "\\"}
                         /\ \A j \in 1..(k - 1) : rest[j] \in {"/", "\\"}) - 1
      authority == SubSeq(rest, slashes + 1, Len(rest))
      stop == FirstOf(authority, {"/", "\\", "?", "#"})
      host == IF stop = 0 THEN authority ELSE SubSeq(authority, 1, stop - 1)
  IN IF \/ colon <= 1
        \/ ~(\E j \in 1..Len(UPPER) : s[1] = UPPER[j] \/ s[1] = LOWER[j])
        \/ \E k \in 1..Len(scheme) :
             ~(AlphaNumeric(scheme[k]) \/ scheme[k] \in {"+", "-", "."})
     THEN NoUrl
     ELSE IF ToLower(scheme) \notin SpecialSchemes
     THEN [ok |-> TRUE, protocol |-> ToLower(scheme) \o <<":">>, host |-> <<>>]
     ELSE IF host = <<>> \/ \E k \in 1..Len(host) : host[k] \in ForbiddenInHost
     THEN NoUrl
     ELSE [ok |-> TRUE, protocol |-> ToLower(scheme) \o <<":">>, host |-> host]

HTTPS_COLON == <<"h","t","t","p","s",":">>
DOT_ZIP == <<".","z","i","p">>

\* a validator that accepts every scheme
validateZipUrl_anyScheme(zipUrl) ==
  IF zipUrl.type # "string" THEN Invalid
  ELSE LET trimmed == Trim(zipUrl.text)
       IN IF \/ trimmed = <<>>
             \/ Len(trimmed) > MAX_URL
             \/ ~URL(trimmed).ok
             \/ ~EndsWith(ToLower(trimmed), DOT_ZIP)
          THEN Invalid
          ELSE Valid(trimmed)

\* validateZipUrl(zipUrl) (lines 83-117)
validateZipUrl(zipUrl) ==
  IF zipUrl.type # "string" THEN Invalid
  ELSE LET trimmed == Trim(zipUrl.text)
       IN IF \/ trimmed = <<>>
             \/ Len(trimmed) > MAX_URL
             \/ ~URL(trimmed).ok
             \/ URL(trimmed).protocol # HTTPS_COLON
             \/ ~EndsWith(ToLower(trimmed), DOT_ZIP)
          THEN Invalid
          ELSE Valid(trimmed)

URL_PLAIN == <<"h","t","t","p","s",":","/","/","h","/","a",".","z","i","p">>
URL_PADDED == <<" ","h","t","t","p","s",":","/","/","h","/","a",".","z","i","p"," ">>
URL_UPPER_EXT == <<"h","t","t","p","s",":","/","/","h","/","A",".","Z","I","P">>
URL_UPPER_SCHEME == <<"H","T","T","P","S",":","/","/","h","/","a",".","z","i","p">>
URL_HTTP == <<"h","t","t","p",":","/","/","h","/","a",".","z","i","p">>
URL_QUERY == <<"h","t","t","p","s",":","/","/","h","/","a",".","z","i","p","?","x">>
URL_RELATIVE == <<"h","/","a",".","z","i","p">>
URL_BAD_HOST == <<"h","t","t","p","s",":","/","/","a"," ","b",".","z","i","p">>
URL_NO_HOST == <<"h","t","t","p","s",":","/","/">>
URL_BLANK == <<" "," ">>

\* the zipUrl fields of the generated requests
IntakeUrls ==
  {Str(u) : u \in {URL_PLAIN, URL_PADDED, URL_UPPER_EXT, URL_UPPER_SCHEME,
                   URL_HTTP, URL_QUERY, URL_RELATIVE, URL_BAD_HOST,
                   URL_NO_HOST, URL_BLANK, <<>>}}
    \cup {Undefined, Number}

\* the repoName fields of the generated requests
IntakeNames ==
  {Str(n) : n \in {<<"r">>, <<" ","r"," ">>, <<"a",".",".","b">>, <<"a",".","b">>,
                   <<"-","a">>, <<"a","-">>, <<"g","i","t">>, <<"G","I","T">>,
                   <<"a"," ","b">>, <<"a",";","b">>, <<" ">>, <<>>}}
    \cup {Undefined, Number}

IntakeUsernames == {Str(<<"u">>), Str(<<>>), Undefined}

HttpRequest(method, body, username, zipUrl, repoName, connectionString) ==
  [method |-> method, body |-> body, username |-> username,
   zipUrl |-> zipUrl, repoName |-> repoName,
   connectionString |-> connectionString]

\* the requests the endpoint is invoked with, and whether the
\* ServiceBusConnection setting is there
HttpRequests ==
  {HttpRequest(m, "object", Str(<<"u">>), Str(URL_PLAIN), Str(<<"r">>), c) :
     m \in {"OPTIONS", "GET"}, c \in BOOLEAN}
    \cup {HttpRequest("POST", b, Undefined, Undefined, Undefined, c) :
            b \in {"none", "text"}, c \in BOOLEAN}
    \cup {HttpRequest("POST", "object", u, z, r, c) :
            u \in IntakeUsernames, z \in IntakeUrls, r \in IntakeNames,
            c \in BOOLEAN}

\* a row of the table Github (src/unnamed/part_001 lines 2-8)
Row(id, username, token) == [id |-> id, username |-> username, token |-> token]

\* null, what a query resolves to when no row matches
NoRow == Row(0, <<>>, <<>>)

\* prisma.github.findUnique({where: {id}})
findUniqueById(table, id) ==
  IF \E row \in table : row.id = id
  THEN CHOOSE row \in table : row.id = id
  ELSE NoRow

\* the table before any login, with the row of a first login, and with a
\* row whose token is the empty string
StoredTables ==
  {{}, {Row(1, <<"u">>, TOKEN_U)}, {Row(1, <<"v">>, TOKEN_V)},
   {Row(1, <<"u">>, <<>>)}}

\* what prisma.github.findUnique({where: {id: 1}}) resolves to or throws
\* (lines 173-198)
TokenRecords ==
  {IF findUniqueById(github, 1) = NoRow
   THEN [kind |-> "null", token |-> <<>>]
   ELSE [kind |-> "record", token |-> findUniqueById(github, 1).token],
   [kind |-> "error", token |-> <<>>]}

Res(status, body) == [status |-> status, body |-> body]

\* the part of the handler before its first await (lines 138-172): the
\* response it returns with, NoRes if it goes on to read the token
Refusal(r) ==
  IF r.method = "OPTIONS" THEN Res(204, "")
  ELSE IF r.method # "POST" THEN Res(405, "Only POST allowed")
  ELSE IF ~r.connectionString
  THEN Res(500, "Service Bus connection string not configured")
  ELSE IF r.body # "object" THEN Res(400, "Invalid request body")
  ELSE NoRes

\* the part of the handler between the token read and the sending (lines
\* 176-260): the response it returns with, NoRes if it goes on to send
RefusalAfterToken(r, record) ==
  IF record.kind = "null"
  THEN Res(401, "Authentication token not found in database")
  ELSE IF record.kind = "error"
  THEN Res(500, "Failed to retrieve authentication token")
  ELSE IF record.token = <<>>
  THEN Res(401, "Authentication token is not available")
  ELSE IF ~Truthy(r.username) \/ ~Truthy(r.zipUrl) \/ ~Truthy(r.repoName)
  THEN Res(400, "Missing username, zipUrl, or repoName")
  ELSE IF ~validateRepoName(r.repoName).isValid
  THEN Res(400, "Invalid repository name")
  ELSE IF ~validateZipUrl(r.zipUrl).isValid
  THEN Res(400, "Invalid ZIP URL")
  ELSE NoRes

\* the message the handler sends (lines 276-282), but for its timestamp
QueueMessage(r, record) ==
  [username |-> r.username,
   zipUrl |-> validateZipUrl(r.zipUrl).sanitized,
   repoName |-> validateRepoName(r.repoName).sanitized,
   authToken |-> record.token]

IntakeInit ==
  /\ mySbMsg = StandardMessage
  /\ archive = FlatTree(1)
  /\ repos = {}
  /\ store = <<>>
  /\ pc = "request"
  /\ JobIdle
  /\ attempts = 0
  /\ wire = <<>>
  /\ git = NoGit
  /\ clock = 0
  /\ tempDir = {}
  /\ jobs = <<>>
  /\ req \in HttpRequests
  /\ queue = <<>>
  /\ res = NoRes
  /\ github \in StoredTables

\* what the steps of the endpoint leave alone
intakeFrame == <<mySbMsg, archive, repos, store, store0, zipFile, extractDir,
                 workingDir, answer, allFiles, i, attempt, task, batches,
                 jobError, repoUrl, ensureLog, attempts, git, clock, tempDir,
                 jobs, req, github>>

\* the endpoint is invoked (lines 119-176)
Invoked ==
  /\ pc = "request"
  /\ IF Refusal(req) # NoRes
     THEN /\ res' = Refusal(req)
          /\ pc' = "responded"
          /\ UNCHANGED wire
     ELSE /\ wire' = <<[request |-> "findUnique"]>>
          /\ pc' = "findUnique"
          /\ UNCHANGED res
  /\ UNCHANGED <<intakeFrame, queue>>

\* the token record arrived or the read failed; the client is disconnected
\* and the fields are validated (lines 176-312)
TokenRead ==
  /\ pc = "findUnique"
  /\ \E record \in TokenRecords :
       IF RefusalAfterToken(req, record) # NoRes
       THEN /\ res' = RefusalAfterToken(req, record)
            /\ pc' = "responded"
            /\ wire' = Append(wire, [answer |-> record])
       ELSE /\ wire' = wire \o <<[answer |-> record],
                                 [request |-> "sendMessages",
                                  message |-> QueueMessage(req, record)]>>
            /\ pc' = "sendMessages"
            /\ UNCHANGED res
  /\ UNCHANGED <<intakeFrame, queue>>

\* sender.sendMessages resolved or threw (lines 312-353)
MessageSent ==
  /\ pc = "sendMessages"
  /\ \E ok \in BOOLEAN :
       IF ok
       THEN /\ queue' = Append(queue, wire[Len(wire)].message)
            /\ res' = Res(200, "Task queued successfully")
            /\ pc' = "close"
       ELSE /\ res' = Res(500, "Failed to queue task")
            /\ pc' = "responded"
            /\ UNCHANGED queue
  /\ UNCHANGED <<intakeFrame, wire>>

\* sender.close() resolved or threw; the client is closed (lines 334-377)
SenderClosed ==
  /\ pc = "close"
  /\ \E ok \in BOOLEAN :
       res' = IF ok THEN res ELSE Res(500, "Failed to queue task")
  /\ pc' = "responded"
  /\ UNCHANGED <<intakeFrame, wire, queue>>

IntakeNext ==
  \/ Invoked
  \/ TokenRead
  \/ MessageSent
  \/ SenderClosed

IntakeSpec == IntakeInit /\ [][IntakeNext]_vars

(* ---------------- the sequential strategy (src/unnamed/part_000) ------ *)

maxAttempts == 3

VERIFY_RATE_LIMITED == <<"G","i","t","H","u","b"," ","A","P","I"," ","r","a","t","e"," ","l","i","m","i","t"," ","e","x","c","e","e","d","e","d"," ","d","u","r","i","n","g"," ","r","e","p","o","s","i","t","o","r","y"," ","v","e","r","i","f","i","c","a","t","i","o","n","."," ","P","l","e","a","s","e"," ","t","r","y"," ","a","g","a","i","n"," ","l","a","t","e","r",".">>
NOT_ACCESSIBLE_AFTER == <<"R","e","p","o","s","i","t","o","r","y"," ","n","o","t"," ","a","c","c","e","s","s","i","b","l","e"," ","a","f","t","e","r"," ","3"," ","a","t","t","e","m","p","t","s",":"," ">>
UPLOAD_RATE_LIMITED == <<"G","i","t","H","u","b"," ","A","P","I"," ","r","a","t","e"," ","l","i","m","i","t"," ","e","x","c","e","e","d","e","d"," ","w","h","i","l","e"," ","u","p","l","o","a","d","i","n","g"," ">>
TRY_AGAIN == <<"."," ","P","l","e","a","s","e"," ","t","r","y"," ","a","g","a","i","n"," ","l","a","t","e","r",".">>
FAILED_TO_UPLOAD == <<"F","a","i","l","e","d"," ","t","o"," ","u","p","l","o","a","d"," ">>

\* answers to the lookup of the repository (lines 343-353)
RepoCheckAnswers ==
  {Response(200, <<>>), Response(403, API_RATE_MSG),
   Response(404, NOT_FOUND_MSG), Response(500, SERVER_MSG)}

\* the test of lines 366-370
RateLimitHit(r) == r.status = 403 /\ Includes(r.message, RATE_LIMIT)

\* a loop that gives up on the first failure that is no rate limit
AfterRepoCheck_rateLimitOnly(r, n) ==
  IF Ok(r) THEN "upload"
  ELSE IF RateLimitHit(r)
  THEN IF n < maxAttempts THEN "wait5000" ELSE "rate limited"
  ELSE "not accessible"

\* a loop that goes on to the upload when its attempts are used up
AfterRepoCheck_uploadAnyway(r, n) ==
  IF Ok(r) THEN "upload"
  ELSE IF n < maxAttempts
  THEN IF RateLimitHit(r) THEN "wait5000" ELSE "wait2000"
  ELSE "upload"

\* one turn of the verification loop on the answer to attempt n (lines
\* 337-401): go on to the upload, wait and look up again, or throw
AfterRepoCheck(r, n) ==
  IF Ok(r) THEN "upload"
  ELSE IF RateLimitHit(r)
  THEN IF n < maxAttempts THEN "wait5000" ELSE "rate limited"
  ELSE IF n < maxAttempts THEN "wait2000" ELSE "not accessible"

\* a request of the strategy on its way
Fetch(request, path, sha) ==
  [request |-> request, path |-> path, sha |-> sha, answer |-> NoResponse]

\* the response to the request on its way arrived
Fetched(r) == [wire EXCEPT ![Len(wire)].answer = r]

\* the error uploadFile throws on the answer r to its PUT (lines 454-479)
UploadFileError(relativePath, r) ==
  IF RateLimitHit(r)
  THEN UPLOAD_RATE_LIMITED \o relativePath \o TRY_AGAIN
  ELSE FAILED_TO_UPLOAD \o relativePath \o <<":", " ">> \o r.message

SequentialInit ==
  /\ mySbMsg = StandardMessage
  /\ archive \in {FlatTree(n) : n \in 0..MaxFiles}
                  \cup {WrappedTree, SharedPathTree}
  /\ repos = {<<"u">>}
  /\ \E pre \in ExistingSets(TargetPaths(archive)) :
       store = [q \in pre |-> OldBytes]
  /\ pc = "sequential"
  /\ Idle

\* what the steps of the strategy leave alone
sequentialFrame == <<mySbMsg, archive, repos, store0, zipFile, extractDir,
                     workingDir, answer, attempt, task, batches, repoUrl,
                     ensureLog, git, clock, tempDir, jobs, req, queue, res, github>>

\* uploadToGitHubAPI is called: the first lookup is sent (lines 323-352)
SequentialStarts ==
  /\ pc = "sequential"
  /\ attempts' = 1
  /\ wire' = <<Fetch("GET repo", <<>>, NoSha)>>
  /\ pc' = "repoCheck"
  /\ UNCHANGED <<sequentialFrame, store, allFiles, i, jobError>>

\* the answer to a lookup arrived (lines 353-401); after a success
\* uploadDirectory starts with the first file (lines 491-511)
RepoChecked ==
  /\ pc = "repoCheck"
  /\ \E r \in RepoCheckAnswers :
       LET next == AfterRepoCheck(r, attempts)
           files == collectFiles(archive.items, <<>>)
       IN IF next = "upload" THEN
            /\ allFiles' = files
            /\ IF files = <<>>
               THEN /\ pc' = "success"
                    /\ wire' = Fetched(r)
                    /\ UNCHANGED i
               ELSE /\ pc' = "existingFile"
                    /\ i' = 1
                    /\ wire' = Append(Fetched(r),
                         Fetch("GET contents", files[1].relativePath, NoSha))
            /\ UNCHANGED jobError
          ELSE
            /\ wire' = Fetched(r)
            /\ pc' = IF next \in {"wait5000", "wait2000"} THEN next ELSE "failed"
            /\ jobError' = IF next = "rate limited" THEN VERIFY_RATE_LIMITED
                           ELSE IF next = "not accessible"
                           THEN NOT_ACCESSIBLE_AFTER \o r.message
                           ELSE jobError
            /\ UNCHANGED <<allFiles, i>>
  /\ UNCHANGED <<sequentialFrame, store, attempts>>

\* the timer of the loop fired: the next attempt (lines 337-352)
Waited ==
  /\ pc \in {"wait5000", "wait2000"}
  /\ attempts' = attempts + 1
  /\ wire' = Append(wire, Fetch("GET repo", <<>>, NoSha))
  /\ pc' = "repoCheck"
  /\ UNCHANGED <<sequentialFrame, store, allFiles, i, jobError>>

\* uploadFile: the answer to the existence check arrived and the PUT is
\* sent, with the sha of the file if the check succeeded (lines 403-452)
FileChecked ==
  /\ pc = "existingFile"
  /\ \E r \in {ReadAnswer(store, UrlPath(allFiles[i].relativePath))}
                \cup GetFaults :
       wire' = Append(Fetched(r),
                 Fetch("PUT contents", allFiles[i].relativePath,
                       IF Ok(r) THEN r.sha ELSE NoSha))
  /\ pc' = "put"
  /\ UNCHANGED <<sequentialFrame, store, attempts, allFiles, i, jobError>>

\* uploadFile: the answer to the PUT arrived (lines 454-489)
FilePut ==
  /\ pc = "put"
  /\ LET file == allFiles[i]
         sent == wire[Len(wire)]
         sp == UrlPath(file.relativePath)
     IN \E r \in {IF sent.sha = NoSha
                  THEN CreateAnswer(store, sp)
                  ELSE UpdateAnswer(store, sp, sent.sha)}
                   \cup PutFaults :
          /\ wire' = Fetched(r)
          /\ IF Ok(r)
             THEN /\ store' = StoreWrite(store, sp,
                                         Base64Encode(file.content))
                  /\ pc' = "delay"
                  /\ UNCHANGED jobError
             ELSE /\ pc' = "failed"
                  /\ jobError' = UploadFileError(file.relativePath, r)
                  /\ UNCHANGED store
  /\ UNCHANGED <<sequentialFrame, attempts, allFiles, i>>

\* the 500 ms timer after a file fired: the next file, or the end of
\* uploadDirectory (lines 491-511)
Delayed ==
  /\ pc = "delay"
  /\ IF i < Len(allFiles)
     THEN /\ i' = i + 1
          /\ wire' = Append(wire,
               Fetch("GET contents", allFiles[i + 1].relativePath, NoSha))
          /\ pc' = "existingFile"
     ELSE /\ pc' = "success"
          /\ UNCHANGED <<i, wire>>
  /\ UNCHANGED <<sequentialFrame, store, attempts, allFiles, jobError>>

SequentialNext ==
  \/ SequentialStarts
  \/ RepoChecked
  \/ Waited
  \/ FileChecked
  \/ FilePut
  \/ Delayed

SequentialSpec == SequentialInit /\ [][SequentialNext]_vars

(* ------------------- the OAuth callback (lines 393-518) --------------- *)

\* the authorisation codes of the generated requests: none, a code GitHub
\* issued to account u, one it issued to account v, one it does not know
CODE_U == <<"c", "u">>
CODE_V == <<"c", "v">>
CODE_X == <<"c", "x">>

\* the account an authorisation code was issued to, <<>> if to none
CodeOwner(code) ==
  IF code = CODE_U THEN <<"u">>
  ELSE IF code = CODE_V THEN <<"v">>
  ELSE <<>>

CallbackRequest(method, code) == [method |-> method, code |-> code]

CallbackRequests ==
  {CallbackRequest(m, c) :
     m \in {"OPTIONS", "GET"}, c \in {<<>>, CODE_U, CODE_V, CODE_X}}

GHO == <<"g", "h", "o", "_">>

\* the access token GitHub issues to an account at a time: a new token at
\* each exchange
AccessToken(login, now) ==
  GHO \o login \o <<(<<"0", "1", "2", "3", "4", "5", "6", "7", "8", "9">>)[(now % 10) + 1]>>

\* what the exchange of the code resolves to (lines 417-433): the token
\* data, with access_token absent (<<>>) when the code is refused, or an
\* error thrown by fetch or by json()
ExchangeAnswers(code, now) ==
  {[threw |-> FALSE,
    access_token |-> IF CodeOwner(code) # <<>>
                     THEN AccessToken(CodeOwner(code), now) ELSE <<>>],
   [threw |-> FALSE, access_token |-> <<>>],
   [threw |-> TRUE, access_token |-> <<>>]}

\* what GET /user with the new token resolves to (lines 451-459): the
\* account's login, an error object without login (login is then
\* undefined, <<>>), or an error thrown by fetch or by json()
UserAnswers(code) ==
  {[threw |-> FALSE, login |-> CodeOwner(code)],
   [threw |-> FALSE, login |-> <<>>],
   [threw |-> TRUE, login |-> <<>>]}

\* the id a new row gets from the sequence of the column id
NextId(table) ==
  IF table = {} THEN 1
  ELSE 1 + (CHOOSE n \in {row.id : row \in table} :
              \A row \in table : row.id <= n)

Threw(table) == [threw |-> TRUE, table |-> table, row |-> NoRow]

\* prisma.github.update({where: {username}, data: {token}}) (lines
\* 473-481): it throws when username is undefined, when no row has that
\* username or when another row holds the token (unique index
\* Github_token_key)
update(table, username, token) ==
  IF \/ username = <<>>
     \/ ~\E row \in table : row.username = username
     \/ \E row \in table : row.token = token /\ row.username # username
  THEN Threw(table)
  ELSE LET old == CHOOSE row \in table : row.username = username
           new == Row(old.id, username, token)
       IN [threw |-> FALSE, table |-> (table \ {old}) \cup {new}, row |-> new]

\* prisma.github.create({data: {username, token}}) (lines 484-489): it
\* throws when username is undefined, or when a row holds that username or
\* that token (unique indexes Github_username_key and Github_token_key)
create(table, username, token) ==
  IF \/ username = <<>>
     \/ \E row \in table : row.username = username
     \/ \E row \in table : row.token = token
  THEN Threw(table)
  ELSE LET new == Row(NextId(table), username, token)
       IN [threw |-> FALSE, table |-> table \cup {new}, row |-> new]

\* the response of the catch block (lines 507-517)
INTERNAL_ERROR == Res(500, "Internal Server Error")

\* the redirect to `${frontendUrl}/realpage?id=${id}` (lines 498-506)
Redirect(id) == [status |-> 302, body |-> "", id |-> id]

\* the locals value and username of the handler (lines 434, 459)
tokenValue == wire[1].answer.access_token
userLogin == wire[2].answer.login

\* the table is empty, as the migration leaves it, and no callback has run
CallbackInit ==
  /\ mySbMsg = StandardMessage
  /\ archive = FlatTree(1)
  /\ repos = {}
  /\ store = <<>>
  /\ pc = "idle"
  /\ Idle

\* what the steps of the callback leave alone
callbackFrame == <<mySbMsg, archive, repos, store, store0, zipFile, extractDir,
                   workingDir, answer, allFiles, i, attempt, task, batches,
                   jobError, repoUrl, ensureLog, attempts, git, tempDir,
                   jobs, queue>>

\* the callback is invoked, after the one before it has responded: it
\* answers a preflight, refuses a request without code, or sends the code
\* to be exchanged (lines 393-432)
CallbackInvoked ==
  /\ pc \in {"idle", "responded"}
  /\ clock < MaxLogins
  /\ clock' = clock + 1
  /\ \E r \in CallbackRequests :
       /\ req' = r
       /\ IF r.method = "OPTIONS"
          THEN res' = Res(200, "") /\ pc' = "responded"
          ELSE IF r.code = <<>>
          THEN res' = Res(400, "Missing code parameter") /\ pc' = "responded"
          ELSE res' = NoRes /\ pc' = "exchange"
  /\ wire' = <<>>
  /\ UNCHANGED <<callbackFrame, github>>

\* the exchange was answered or failed; with a token the handler asks for
\* the account (lines 433-457)
TokenExchanged ==
  /\ pc = "exchange"
  /\ \E a \in ExchangeAnswers(req.code, clock) :
       /\ wire' = Append(wire, [request |-> "access_token", answer |-> a])
       /\ IF a.threw
          THEN res' = INTERNAL_ERROR /\ pc' = "responded"
          ELSE IF a.access_token = <<>>
          THEN res' = Res(400, "Failed to get access token") /\ pc' = "responded"
          ELSE pc' = "user" /\ UNCHANGED res
  /\ UNCHANGED <<callbackFrame, github, clock, req>>

\* the account was answered or the request failed; the handler reads the
\* row of id 1 (lines 458-468)
UserFetched ==
  /\ pc = "user"
  /\ \E a \in UserAnswers(req.code) :
       /\ wire' = Append(wire, [request |-> "user", answer |-> a])
       /\ IF a.threw
          THEN res' = INTERNAL_ERROR /\ pc' = "responded"
          ELSE pc' = "findUnique" /\ UNCHANGED res
  /\ UNCHANGED <<callbackFrame, github, clock, req>>

\* findUnique({where: {id: 1}}) resolved, or it threw and the error was
\* dropped, which leaves user undefined; the handler updates the row of
\* the login if user is set and creates a row otherwise (lines 463-489)
RowFound ==
  /\ pc = "findUnique"
  /\ \E user \in {findUniqueById(github, 1), NoRow} :
       /\ wire' = Append(wire, [request |-> "findUnique", answer |-> user])
       /\ pc' = IF user # NoRow THEN "update" ELSE "create"
  /\ UNCHANGED <<callbackFrame, github, clock, req, res>>

\* the table has run the update or the create: the handler redirects with
\* the id of the row, or answers 500 if the statement threw (lines 473-517)
RowWritten ==
  /\ pc \in {"update", "create"}
  /\ LET w == IF pc = "update" THEN update(github, userLogin, tokenValue)
              ELSE create(github, userLogin, tokenValue)
     IN /\ github' = w.table
        /\ res' = IF w.threw THEN INTERNAL_ERROR ELSE Redirect(w.row.id)
  /\ pc' = "responded"
  /\ UNCHANGED <<callbackFrame, clock, req, wire>>

CallbackNext ==
  \/ CallbackInvoked
  \/ TokenExchanged
  \/ UserFetched
  \/ RowFound
  \/ RowWritten

CallbackSpec == CallbackInit /\ [][CallbackNext]_vars

(* ---------------------- vocabulary of the properties ------------------ *)

\* relative paths of the regular files at any depth under a directory
RECURSIVE RegularFilePaths(_, _)
RegularFilePaths(items, base) ==
  UNION {LET e == items[k]
             rel == IF base = <<>> THEN e.name ELSE base \o <<"/">> \o e.name
         IN IF e.kind = "file" THEN {rel}
            ELSE IF e.kind = "dir" THEN RegularFilePaths(e.items, rel)
            ELSE {}
         : k \in 1..Len(items)}

Files == 1..Len(task)
Calls(f) == 1..Len(task[f])

\* the batch a file index belongs to, counted from 0
BatchOf(f) == (f - 1) \div BATCH_SIZE

CeilDiv(a, b) == (a + b - 1) \div b

\* the callback completed with an accepted create or update
Written(t) == t.pc = "done"

\* the callback threw because of an answer carrying the rate-limit message
RateLimited(t) == t.pc = "failed" /\ Includes(t.failure.message, RATE_LIMIT)

\* the callback threw for any other reason
GenuineFailure(t) == t.pc = "failed" /\ ~Includes(t.failure.message, RATE_LIMIT)

\* upserts issued and not yet completed
InFlight ==
  Cardinality({c \in UNION {{f} \X Calls(f) : f \in Files} : Pending(task[c[1]][c[2]])})

FirstAttempts == SelectSeq(batches, LAMBDA b : b.attempt = 1)

(* ------------------------------ C1 ------------------------------------ *)

\* C1: when the job returns the repository URL, every regular file under
\* the working directory is in the collected list and one of its upserts
\* completed with an accepted create or update.
C1_SuccessMeansEveryFileWritten ==
  pc = "success" =>
    \A p \in RegularFilePaths(workingDir.items, <<>>) :
      \E f \in Files : /\ allFiles[f].relativePath = p
                       /\ \E k \in Calls(f) : Written(task[f][k])

\* a job that succeeded with more files than one batch holds
C1_Witness == pc = "success" /\ N > BATCH_SIZE /\ Len(batches) >= 2

(* ------------------------------ C2 ------------------------------------ *)

\* C2: once an upsert of a batch has failed for a reason other than rate
\* limiting, no upsert of a file of a later batch is issued.
C2_GenuineFailureStopsLaterBatches ==
  [][\A f \in Files : \A k \in Calls(f) :
       GenuineFailure(task[f][k]) =>
         \A g \in Files : BatchOf(g) > BatchOf(f) => Len(task'[g]) = Len(task[g])]_vars

(* ------------------------------ C3 ------------------------------------ *)

\* C3: when a write of the awaited first attempt of a batch is rejected
\* with status 403 and a rate-limit message, the job does not fail: the
\* loop pauses in order to send the whole batch again.
C3_RateLimitedWriteRetriesBatch ==
  [][\A f \in Files : \A k \in Calls(f) :
       (/\ Awaited(f, k) /\ attempt = 1
        /\ Pending(task[f][k])
        /\ task'[f][k].pc = "failed"
        /\ task'[f][k].failure.status = 403
        /\ Includes(task'[f][k].failure.message, RATE_LIMIT))
       => pc' = "backoff"]_vars

(* ------------------------------ C4 ------------------------------------ *)

\* C4: a batch is sent at most twice, and when an upsert of the second
\* sending fails, whatever the reason, the job has failed and no file of a
\* later batch has an upsert.
C4_BatchRetriedAtMostOnce ==
  /\ \A f \in Files : Len(task[f]) <= 2
  /\ \A f \in Files :
       (Len(task[f]) = 2 /\ task[f][2].pc = "failed") =>
         /\ pc = "failed"
         /\ \A g \in Files : BatchOf(g) > BatchOf(f) => task[g] = <<>>

\* the retry of the first of two batches was itself rate limited
C4_Witness ==
  \E f \in Files :
    /\ Len(task[f]) = 2 /\ RateLimited(task[f][2])
    /\ \E g \in Files : BatchOf(g) > BatchOf(f)

(* ------------------------------ C5 ------------------------------------ *)

\* C5: at most BATCH_SIZE upserts of the job are in flight at any time.
C5_AtMostBatchSizeInFlight == InFlight <= BATCH_SIZE

(* ------------------------------ C6 ------------------------------------ *)

\* C6: when the batch loop stops waiting for a sending of a batch (to
\* pause, to retry, to go on or to fail), every upsert of that sending has
\* completed.
C6_OutcomeOnlyAfterAllComplete ==
  [][(pc = "batch" /\ (pc' # "batch" \/ batches' # batches)) =>
       \A f \in Slice(i, N) : ~Pending(task'[f][Len(task[f])])]_vars


(* ------------------------------ C7 ------------------------------------ *)

\* C7: the first sendings of the batches are the consecutive slices of the
\* collected list, in order: slice j holds files (j-1)*BATCH_SIZE+1 up to
\* j*BATCH_SIZE (or the last file), so it has between 1 and BATCH_SIZE
\* files; a slice is sent only after every file of the previous one was
\* written; and at success there are ceil(N / BATCH_SIZE) slices and every
\* file is in exactly one of them.
C7_ConsecutiveSlicesInOrder ==
  /\ \A j \in 1..Len(FirstAttempts) :
       /\ FirstAttempts[j].files = ((j - 1) * BATCH_SIZE + 1)..Min(j * BATCH_SIZE, N)
       /\ Cardinality(FirstAttempts[j].files) \in 1..BATCH_SIZE
       /\ j > 1 => \A f \in FirstAttempts[j - 1].files :
                     \E k \in Calls(f) : Written(task[f][k])
  /\ \A f \in Files :
       task[f] # <<>> => \E j \in 1..Len(FirstAttempts) : f \in FirstAttempts[j].files
  /\ pc = "success" =>
       /\ Len(FirstAttempts) = CeilDiv(N, BATCH_SIZE)
       /\ \A f \in 1..N :
            Cardinality({j \in 1..Len(FirstAttempts) : f \in FirstAttempts[j].files}) = 1

\* a successful job whose last batch is not full
C7_Witness ==
  /\ pc = "success" /\ N > BATCH_SIZE /\ N % BATCH_SIZE # 0
  /\ Len(FirstAttempts) = CeilDiv(N, BATCH_SIZE)

(* ------------------------------ C8 ------------------------------------ *)

\* C8: a first write carries no revision token; only the 422 "sha" answer
\* leads to a read; the second write carries exactly the token that the
\* read of the same path returned; and as long as no other upsert targets
\* that path, the store accepts that second write, so the file ends
\* updated without an error.
C8_ConflictThenUpdateWithReadToken ==
  \A f \in Files : \A k \in Calls(f) :
    LET t == task[f][k]
        sp == UrlPath(allFiles[f].relativePath)
    IN /\ t.pc = "put1" => t.sha = NoSha
       /\ t.pc \in {"get", "put2"} =>
            t.first.status = 422 /\ Includes(t.first.message, SHA_WORD)
       /\ t.pc = "put2" =>
            /\ t.existingFile.status = 200
            /\ t.sha = t.existingFile.sha
            /\ t.sha # NoSha
            /\ (/\ Len(task[f]) = 1
                /\ \A g \in Files : g # f => UrlPath(allFiles[g].relativePath) # sp)
               => /\ t.sha = Sha(store[sp])
                  /\ Ok(UpdateAnswer(store, sp, t.sha))
       /\ (t.pc = "done" /\ t.first.status = 422) =>
            /\ t.err = <<>>
            /\ t.sha = t.existingFile.sha
            /\ sp \in DOMAIN store

\* a job succeeded after a path that already existed was updated
C8_Witness ==
  /\ pc = "success"
  /\ \E f \in Files : \E k \in Calls(f) :
       /\ task[f][k].pc = "done" /\ task[f][k].first.status = 422
       /\ UrlPath(allFiles[f].relativePath) \in DOMAIN store0
       /\ store[UrlPath(allFiles[f].relativePath)] = allFiles[f].content
       /\ store0[UrlPath(allFiles[f].relativePath)] # allFiles[f].content

(* ------------------------------ C9 ------------------------------------ *)

\* the contents the job sends to a store path
UploadedTo(sp) ==
  {allFiles[g].content : g \in {h \in 1..N : UrlPath(allFiles[h].relativePath) = sp}}

\* C9: after the job failed, every path for which an upsert was accepted
\* is still on the store and holds content the job uploaded to it.
C9_NoRollbackAfterFailure ==
  pc = "failed" =>
    \A f \in Files : \A k \in Calls(f) :
      Written(task[f][k]) =>
        LET sp == UrlPath(allFiles[f].relativePath)
        IN sp \in DOMAIN store /\ store[sp] \in UploadedTo(sp)

\* a failed job that had written one file and not another
C9_Witness ==
  /\ pc = "failed"
  /\ \E f \in Files : \E k \in Calls(f) : Written(task[f][k])
  /\ \E f \in Files : \A k \in Calls(f) : ~Written(task[f][k])

(* ------------------------------ C10 ----------------------------------- *)

\* C10: after a successful job, the store holds at each file's relative
\* path exactly the file's bytes.
C10_RoundTrip ==
  pc = "success" =>
    \A f \in 1..N :
      /\ allFiles[f].relativePath \in DOMAIN store
      /\ store[allFiles[f].relativePath] = allFiles[f].content

(* ------------------------------ C11 ----------------------------------- *)

\* the direct calls of createRepoIfNotExists so far
EnsureCalls == 1..Len(ensureLog)

\* the requests of a call, oldest first
Requests(c) == ensureLog[c].requests

\* the positions of the requests of one kind among those of a call
RequestsOf(c, kind) ==
  {j \in 1..Len(Requests(c)) : Requests(c)[j].kind = kind}

Answered(q) == q.answer # NoResponse

\* the existence check of the call was answered with the repository
FoundByLookup(c) ==
  Answered(Requests(c)[1]) /\ Ok(Requests(c)[1].answer)

\* C11: a call whose existence check finds the repository returns the
\* record that check delivered and requests nothing else, in particular no
\* creation; two such calls return the same record.
C11_EnsureIdempotent ==
  /\ \A c \in EnsureCalls :
       FoundByLookup(c) =>
         /\ ensureLog[c].result = "returned"
         /\ ensureLog[c].handle = Requests(c)[1].answer.full_name
         /\ Len(Requests(c)) = 1
         /\ RequestsOf(c, "create") = {}
  /\ \A c, d \in EnsureCalls :
       FoundByLookup(c) /\ FoundByLookup(d)
         => ensureLog[c].handle = ensureLog[d].handle

\* two calls in a row on a repository that exists, written with capitals
C11_Witness ==
  /\ Len(ensureLog) = 2
  /\ FoundByLookup(1) /\ FoundByLookup(2)
  /\ ensureLog[2].result = "returned"
  /\ mySbMsg.username = <<"U">>

(* ------------------------------ C12 ----------------------------------- *)

NameClash(r) ==
  /\ r.status = 422
  /\ \E k \in 1..Len(r.errors) : Includes(r.errors[k], NAME_EXISTS)

\* C13: a call requests the creation at most once and the re-check at most
\* once; the re-check is what follows a creation refused with "name
\* already exists", and nothing else; a re-check that finds the repository
\* makes the call return that record, any other answer makes it throw the
\* not-accessible error.
C13_NameClashRechecksOnce ==
  \A c \in EnsureCalls :
    /\ Cardinality(RequestsOf(c, "create")) <= 1
    /\ Cardinality(RequestsOf(c, "verify")) <= 1
    /\ \A j \in RequestsOf(c, "create") :
         (Answered(Requests(c)[j]) /\ NameClash(Requests(c)[j].answer))
           => j + 1 \in RequestsOf(c, "verify")
    /\ \A j \in RequestsOf(c, "verify") :
         /\ j = Len(Requests(c))
         /\ j - 1 \in RequestsOf(c, "create")
         /\ NameClash(Requests(c)[j - 1].answer)
         /\ Answered(Requests(c)[j]) =>
              IF Ok(Requests(c)[j].answer)
              THEN /\ ensureLog[c].result = "returned"
                   /\ ensureLog[c].handle = Requests(c)[j].answer.full_name
              ELSE /\ ensureLog[c].result = "threw"
                   /\ Includes(ensureLog[c].error, NOT_ACCESSIBLE)

\* the repository was not found, another client created it before the
\* creation request arrived, and the re-check returned it
C13_Witness ==
  \E c \in EnsureCalls :
    /\ Requests(c)[1].answer.status = 404
    /\ Len(Requests(c)) = 3
    /\ NameClash(Requests(c)[2].answer)
    /\ Ok(Requests(c)[3].answer)
    /\ ensureLog[c].result = "returned"

(* ------------------------------ C14 ----------------------------------- *)

\* the characters a repository name may consist of
NameCharacters ==
  {UPPER[k] : k \in 1..Len(UPPER)} \cup {LOWER[k] : k \in 1..Len(LOWER)}
    \cup DIGITS \cup {".", "_", "-"}

\* 1 to 100 characters of the allowed set, no dot or hyphen at either end,
\* no angle bracket, quote or grave accent, no two dots in a row, and not a
\* reserved name in any letter case
WellFormedName(s) ==
  /\ Len(s) \in 1..100
  /\ \A k \in 1..Len(s) : s[k] \in NameCharacters
  /\ s[1] \notin {".", "-"} /\ s[Len(s)] \notin {".", "-"}
  /\ \A k \in 1..Len(s) : s[k] \notin {"<", ">", "\"", "'", GRAVE}
  /\ \A k \in 1..(Len(s) - 1) : ~(s[k] = "." /\ s[k + 1] = ".")
  /\ ToLower(s) \notin reserved

\* the processor accepted the repository name of its message
NameAccepted == pc = "probe"

\* C14 as stated: the validator accepts a name exactly if the name itself
\* is well formed.
C14_AcceptsIffWellFormed ==
  pc # "received" => (NameAccepted <=> WellFormedName(mySbMsg.repoName))

\* C14: the validator accepts a name exactly if the name without its
\* leading and trailing whitespace is well formed, and the accepted value
\* is that trimmed name.
C14_AcceptsIffTrimmedWellFormed ==
  pc # "received" =>
    /\ NameAccepted <=> WellFormedName(Trim(mySbMsg.repoName))
    /\ NameAccepted =>
         /\ validatedRepoName(mySbMsg) = Trim(mySbMsg.repoName)
         /\ WellFormedName(validatedRepoName(mySbMsg))

\* a name of 100 characters between whitespace was accepted
C14_Witness ==
  /\ NameAccepted
  /\ Len(mySbMsg.repoName) > 100
  /\ Len(validatedRepoName(mySbMsg)) = 100

(* ------------------------------ C15 ----------------------------------- *)

\* the message cannot be parsed, lacks a required field, or names a
\* repository the validator rejects
BadMessage ==
  \/ mySbMsg.form \in {"text", "other"}
  \/ \E field \in {mySbMsg.username, mySbMsg.zipUrl, mySbMsg.repoName,
                    mySbMsg.authToken} : field = <<>>
  \/ ~WellFormedName(Trim(mySbMsg.repoName))

\* no request was issued: the job awaits nothing, has received no response
\* and has started no upsert, and scratch area and remote store are as
\* they were
NoNetworkCall ==
  /\ pc \in {"received", "failed"}
  /\ answer = NoResponse
  /\ task = <<>> /\ batches = <<>>
  /\ ~zipFile /\ extractDir = NoDir
  /\ store = store0

\* C15: a job with an unparseable message, a missing field or a rejected
\* repository name issues no network call, and once the processor has run
\* it has failed with an error.
C15_BadMessageFailsBeforeAnyCall ==
  BadMessage =>
    /\ NoNetworkCall
    /\ pc # "received" => pc = "failed" /\ jobError # <<>>

\* the job with repoName "../evil" and every other field present failed
C15_Witness ==
  /\ pc = "failed"
  /\ mySbMsg.repoName = EVIL
  /\ mySbMsg.form = "json"
  /\ mySbMsg.username # <<>> /\ mySbMsg.zipUrl # <<>> /\ mySbMsg.authToken # <<>>
  /\ jobError = NAME_CHARSET

(* ------------------------------ C16 ----------------------------------- *)

\* a request that can create external state is in flight or was issued:
\* the creation request, or an upsert
CreatesExternalState ==
  pc = "create" \/ \E f \in Files : task[f] # <<>>

\* C16: when the job issues the creation request or an upsert, the account
\* name and the repository name of its message are both well formed.
C16_CoordinateValidatedBeforeWrites ==
  CreatesExternalState =>
    /\ WellFormedName(Trim(mySbMsg.repoName))
    /\ WellFormedName(mySbMsg.username)

(* ------------------------------ C17 ----------------------------------- *)

\* the answer is one of GET /user
IsProbeAnswer(r) == "login" \in DOMAIN r

\* C17: when the probe is answered with the login of an account and that
\* login differs from the username of the message, letter case aside, the
\* job fails in that step, so nothing is downloaded, looked up, created
\* or written.
C17_MismatchFailsBeforeAnyOtherCall ==
  [][(/\ pc = "probe"
      /\ Ok(answer')
      /\ ToLower(answer'.login) # ToLower(mySbMsg.username))
     => pc' = "failed"]_vars

(* ------------------------------ C18 ----------------------------------- *)

\* the remote store refused the probe because of a rate limit
RateLimitedProbe(r) ==
  r.status \in {403, 429} /\ Includes(r.message, RATE_LIMIT)

\* C18: a probe refused because of a rate limit does not fail the job,
\* which goes on to the download without an owner check; a probe refused
\* for any other reason fails the job in that step, and a job that failed
\* at the probe takes no further step.
C18_RateLimitedProbeProceeds ==
  [][/\ (pc = "probe" /\ RateLimitedProbe(answer'))
          => pc' = "download" /\ jobError' = <<>>
     /\ (pc = "probe" /\ ~Ok(answer') /\ ~RateLimitedProbe(answer'))
          => /\ pc' = "failed" /\ jobError' # <<>>
             /\ task' = <<>> /\ ~zipFile' /\ store' = store0
     /\ ~(pc = "failed" /\ IsProbeAnswer(answer))]_vars

\* the download was requested after a probe that a secondary rate limit
\* refused, for a token that belongs to another account than the username
C18_Witness ==
  /\ pc = "download"
  /\ IsProbeAnswer(answer) /\ answer.status = 429
  /\ TokenOwner(mySbMsg.authToken) # ToLower(mySbMsg.username)

(* ------------------------------ C19 ----------------------------------- *)

\* the stage of the job a control point belongs to
Stage(p) ==
  CASE p = "received" -> 0
    [] p = "probe" -> 1
    [] p = "download" -> 2
    [] p \in {"lookup", "create", "verify"} -> 3
    [] p \in {"batch", "pause", "backoff"} -> 4
    [] p \in {"success", "failed"} -> 5

\* the answers the pending request of the repository ensure can get
EnsureAnswers ==
  CASE pc = "lookup" -> LookupAnswers
    [] pc = "create" -> CreateAnswers
    [] pc = "verify" -> VerifyAnswers
    [] OTHER -> {}

\* the step sends a file upsert request that was not there before
UpsertIssued ==
  \E f \in 1..Len(task') : \E k \in 1..Len(task'[f]) :
    /\ Pending(task'[f][k])
    /\ \/ f > Len(task)
       \/ k > Len(task[f])
       \/ task[f][k] # task'[f][k]

\* C19: the stages of a job run in the order identity probe, download and
\* extraction, unwrapping, .github stripping, repository ensure, file
\* publication: no stage is entered except from the one before it, the
\* ensure starts on the unwrapped content root without its .github entry,
\* a creation request is sent only with the archive extracted and a
\* non-empty working directory, and an upsert is sent only once the ensure
\* was answered with a repository handle (by the step that starts the
\* publication, or by a callback of a publication that had started).
C19_StagesInOrder ==
  [][ /\ Stage(pc') >= Stage(pc)
      /\ (Stage(pc') < 5 /\ Stage(pc') # Stage(pc)) => Stage(pc') = Stage(pc) + 1
      /\ (pc' = "success" /\ pc # "success") => Stage(pc) \in {3, 4}
      /\ (Stage(pc') = 3 /\ Stage(pc) = 2)
           => /\ pc' = "lookup"
              /\ workingDir'.name = ContentRoot(archive).name
              /\ \A k \in 1..Len(workingDir'.items) :
                   workingDir'.items[k].name # DOT_GITHUB
      /\ (pc' = "create" /\ pc # "create")
           => /\ pc = "lookup"
              /\ extractDir # NoDir
              /\ workingDir.items # <<>>
      /\ UpsertIssued
           => \/ Stage(pc) = 4
              \/ Stage(pc) = 5 /\ task # <<>>
              \/ /\ Stage(pc) = 3
                 /\ \E r \in EnsureAnswers :
                      /\ Ok(r)
                      /\ repos' = IF pc = "create" THEN ReposAfterCreate(r) ELSE repos
    ]_vars

\* a job whose archive wraps its content in one folder with a .github
\* entry went through every stage and published the files
C19_Witness ==
  /\ pc = "success"
  /\ archive = WrappedTree
  /\ Len(batches) >= 1
  /\ \A f \in 1..Len(task) : Written(task[f][Len(task[f])])

(* ------------------------------ C20 ----------------------------------- *)

EligiblePaths ==
  LET passed == getRecursiveCalls(workingDir.items, <<>>)
  IN {passed[k].relativePath : k \in 1..Len(passed)}

\* the paths of the files an upsert has written
PublishedPaths ==
  {allFiles[f].relativePath :
     f \in {g \in 1..Len(task) : \E k \in 1..Len(task[g]) : Written(task[g][k])}}

\* C21: every file the orchestrator sends an upsert for has passed the
\* eligibility gate of the classifier, and a job that succeeds on the
\* archive proj/{README.md, .github/workflows/ci.yml,
\* node_modules/pkg/index.js} has published exactly README.md.
C21_UpsertedFilesPassedTheGate ==
  /\ \A f \in 1..Len(task) :
       task[f] # <<>> => allFiles[f].relativePath \in EligiblePaths
  /\ (archive = ScenarioTree /\ pc = "success")
       => PublishedPaths = {README_MD}

(* ------------------------------ C22 ----------------------------------- *)

\* every entry of a tree that is not a directory, with its path relative
\* to the root and the names of the directories on the way to it
RECURSIVE FileEntries(_, _, _)
FileEntries(items, base, dirs) ==
  UNION {LET e == items[k]
             rel == IF base = <<>> THEN e.name ELSE base \o <<"/">> \o e.name
         IN IF e.kind = "dir"
            THEN FileEntries(e.items, rel, Append(dirs, e.name))
            ELSE IF e.kind = "nolist" THEN {}
            ELSE {[path |-> rel, entry |-> e, dirs |-> dirs]}
         : k \in 1..Len(items)}

\* a null byte among the first SAMPLE_BYTES bytes
NullByteInSample(bytes) ==
  \E k \in 1..Len(bytes) : k <= SAMPLE_BYTES /\ bytes[k] = 0

\* a readable regular file that none of the tests of the walk refuses
PassesGate(fe) ==
  /\ fe.entry.kind = "file"
  /\ \A k \in 1..Len(fe.dirs) : fe.dirs[k] \notin skipDirs
  /\ ~shouldSkipFile(fe.entry.name)
  /\ isTextFile(fe.entry.name)
  /\ ~NullByteInSample(fe.entry.bytes)
  /\ ~InvalidPath(fe.path)
  /\ Len(Utf8Decode(fe.entry.bytes)) <= MAX_CONTENT

\* C22: for every tree, each path the classifier returns is that of a
\* readable file of the tree that lies under no skip-listed directory, has
\* no null byte among its first SAMPLE_BYTES bytes and decodes to a text of
\* at most MAX_CONTENT characters; and no unreadable entry stops the walk:
\* every file that passes the tests is returned.
C22_ClassifierExcludes ==
  pc = "classified" =>
    LET entries == FileEntries(archive.items, <<>>, <<>>)
    IN /\ \A k \in 1..Len(allFiles) :
            \E fe \in entries :
              /\ fe.path = allFiles[k].relativePath
              /\ fe.entry.kind = "file"
              /\ \A d \in 1..Len(fe.dirs) : fe.dirs[d] \notin skipDirs
              /\ ~NullByteInSample(fe.entry.bytes)
              /\ Len(Utf8Decode(fe.entry.bytes)) <= MAX_CONTENT
       /\ \A fe \in entries :
            PassesGate(fe) =>
              \E k \in 1..Len(allFiles) : allFiles[k].relativePath = fe.path

\* the walk met an entry whose stat fails, went on to the file after it
\* and returned that file, and left out a file with a null byte
C22_Witness ==
  /\ pc = "classified"
  /\ Len(archive.items) = 2
  /\ archive.items[1].name = <<"v">>
  /\ archive.items[1].items[1].kind = "nostat"
  /\ NullByteInSample(archive.items[2].bytes)
  /\ Len(allFiles) = 1
  /\ allFiles[1].relativePath = <<"v", "/">> \o A_JS

(* ------------------------------ C23 ----------------------------------- *)

\* the positions of the entries of the tree that are not named .github
OtherEntries == {k \in 1..Len(archive.items) : archive.items[k].name # DOT_GITHUB}

\* C23: the call removes the entry named .github that lies directly in the
\* directory, with all it holds, returns true exactly if there was such an
\* entry, and leaves every other entry, in its place and with its whole
\* content, as it was.
C23_StripRemovesOnlyDotGithub ==
  pc \in {"removed", "kept"} =>
    /\ pc = "removed" <=> \E k \in 1..Len(archive.items) :
                             archive.items[k].name = DOT_GITHUB
    /\ workingDir.name = archive.name /\ workingDir.kind = archive.kind
    /\ Len(workingDir.items) = Cardinality(OtherEntries)
    /\ \A j \in 1..Len(workingDir.items) :
         workingDir.items[j] =
           archive.items[CHOOSE k \in OtherEntries :
                           Cardinality({m \in OtherEntries : m < k}) = j - 1]

\* the directory held .github and, after it, a folder with a .github of
\* its own: the first is gone, the folder is untouched
C23_Witness ==
  /\ pc = "removed"
  /\ Len(archive.items) = 2
  /\ archive.items[1].name = DOT_GITHUB /\ archive.items[1].kind = "dir"
  /\ archive.items[2].name = <<"g">>
  /\ workingDir.items = <<archive.items[2]>>

(* ------------------------------ C29 ----------------------------------- *)

\* C29: the effective working directory is the inner directory exactly if
\* the extraction root holds one entry and that entry is a directory, and
\* the extraction root itself otherwise; an inner directory that again
\* holds a single directory is not unwrapped a second time.
C29_UnwrapOnceIffSingleDirectory ==
  pc = "unwrapped" =>
    IF Len(archive.items) = 1 /\ archive.items[1].kind \in {"dir", "nolist"}
    THEN workingDir = archive.items[1]
    ELSE workingDir = archive

\* the root held one folder that itself holds one folder: the working
\* directory is the outer of the two
C29_Witness ==
  /\ pc = "unwrapped"
  /\ Len(archive.items) = 1
  /\ archive.items[1].name = <<"p">>
  /\ Len(archive.items[1].items) = 1
  /\ archive.items[1].items[1].kind = "dir"
  /\ workingDir.name = <<"p">>

(* ------------------------------ C24 ----------------------------------- *)

\* the reference updates the run requested
Patches == {k \in DOMAIN wire : wire[k].request = PATCH_REF}

\* the files at the tip of the branch
VisibleEntries ==
  IF git.exists
  THEN LET entries == git.objects[git.objects[git.main].tree].entries
       IN {entries[k] : k \in DOMAIN entries}
  ELSE {}

\* the branch points at the commit of the run
RunCommitAtTip ==
  git.exists /\ git.objects[git.main].message = COMMIT_MESSAGE

\* C24: a run of the atomic-commit strategy requests at most one update of
\* the branch reference, and only after the tree of all its files and then
\* the commit of that tree, whose only parent is the tip the run read at its
\* start, were created; the branch points at the commit of the run only
\* after that update was accepted, and then, unless another client has
\* pushed since, exactly the files of the run are visible; a run that has
\* failed before the update leaves the branch off its commit with none of
\* its files visible.
C24_AtomicCommit ==
  /\ Cardinality(Patches) <= 1
  /\ \A k \in Patches :
       /\ k = 5
       /\ wire[2].request = GET_REF /\ wire[2].status = 200
       /\ wire[3].request = POST_TREES /\ wire[3].status = 201
       /\ wire[3].entries = allFiles
       /\ git.objects[wire[3].data] = Tree(allFiles)
       /\ wire[4].request = POST_COMMITS /\ wire[4].status = 201
       /\ git.objects[wire[4].data] =
            Commit(wire[3].data, <<wire[2].data>>, COMMIT_MESSAGE)
       /\ wire[k].sha = wire[4].data
  /\ RunCommitAtTip =>
       /\ \E k \in Patches : wire[k].status = 200
       /\ VisibleEntries = {allFiles[k] : k \in DOMAIN allFiles}
  /\ (pc = "failed" /\ Patches = {}) =>
       /\ ~RunCommitAtTip
       /\ \A k \in DOMAIN allFiles : allFiles[k] \notin VisibleEntries

\* a run with files to publish moved a branch another client had pushed to
\* before the run read the tip
C24_Witness ==
  /\ pc = "done"
  /\ allFiles # <<>>
  /\ RunCommitAtTip
  /\ git.objects[wire[2].data].message = OTHER_COMMIT

(* ------------------------------ C25 ----------------------------------- *)

\* the jobs whose upload() has not returned
Running == {j \in DOMAIN jobs : jobs[j].pc \in {"fetch", "uploading"}}

\* C25: two jobs that run at the same time have different zip paths and
\* different extraction folders, and while a job uploads, its extraction
\* folder exists and holds what that job alone wrote: no sweep and no
\* cleanup of another job has removed it or written into it.
C25_NoSharedScratch ==
  /\ \A a, b \in Running :
       a # b => /\ jobs[a].zipPath # jobs[b].zipPath
                /\ jobs[a].extractPath # jobs[b].extractPath
  /\ \A a \in Running :
       jobs[a].pc = "uploading" =>
         \E e \in tempDir : /\ e.name = jobs[a].extractPath
                            /\ e.writers = {a}

(* ------------------------------ C26 ----------------------------------- *)

\* the token record the handler read holds a token
StoredTokenExists ==
  /\ Len(wire) >= 2
  /\ wire[2].answer.kind = "record"
  /\ wire[2].answer.token # <<>>

\* what the claim demands of a request but for the ending of its zipUrl
RequestAcceptable ==
  /\ req.method = "POST"
  /\ req.body = "object"
  /\ StoredTokenExists
  /\ Truthy(req.username) /\ Truthy(req.zipUrl) /\ Truthy(req.repoName)
  /\ validateRepoName(req.repoName).isValid
  /\ req.zipUrl.type = "string"
  /\ URL(Trim(req.zipUrl.text)).ok
  /\ URL(Trim(req.zipUrl.text)).protocol = HTTPS_COLON

\* the queue holds the one message of the request, with the trimmed name
\* and the trimmed URL
EnqueuedTrimmed ==
  /\ Len(queue) = 1
  /\ queue[1].repoName = Trim(req.repoName.text)
  /\ queue[1].zipUrl = Trim(req.zipUrl.text)
  /\ queue[1].username = req.username
  /\ queue[1].authToken = wire[2].answer.token

\* C26 as stated: a message is in the queue only if the request is
\* acceptable and its trimmed zipUrl ends in the characters .zip, the
\* message then holds the trimmed name and URL, and a handler that has
\* answered 200 has enqueued.
C26_EnqueuesOnlyValidRequests ==
  /\ queue # <<>> =>
       /\ RequestAcceptable
       /\ EndsWith(Trim(req.zipUrl.text), DOT_ZIP)
       /\ EnqueuedTrimmed
  /\ res.status = 200 => queue # <<>>

\* C26: a message is in the queue only if the request is a POST with an
\* object body, the stored token exists, the three fields are present, the
\* trimmed name passes the validation and the trimmed zipUrl is an https
\* URL that ends in .zip in any letter case; the message then holds the
\* trimmed name and the trimmed URL; in every other case the queue stays
\* empty and the status of the response is not 200.
C26_EnqueuesOnlyValidRequestsAnyCase ==
  /\ queue # <<>> =>
       /\ RequestAcceptable
       /\ EndsWith(ToLower(Trim(req.zipUrl.text)), DOT_ZIP)
       /\ EnqueuedTrimmed
  /\ res.status = 200 => queue # <<>>

\* a request with a padded name and a padded URL was enqueued
C26_Witness ==
  /\ pc = "responded"
  /\ res.status = 200
  /\ Len(queue) = 1
  /\ req.repoName.text # queue[1].repoName
  /\ req.zipUrl.text # queue[1].zipUrl

(* ------------------------------ C27 ----------------------------------- *)

\* the verification lookups and the requests of uploadFile sent so far
Lookups == {k \in DOMAIN wire : wire[k].request = "GET repo"}
Upserts == {k \in DOMAIN wire : wire[k].request \in {"GET contents", "PUT contents"}}

\* request k was answered with a failure
FailedFetch(k) == wire[k].answer # NoResponse /\ ~Ok(wire[k].answer)

\* the number of the attempt lookup k belongs to
AttemptOf(k) == Cardinality({j \in Lookups : j <= k})

C28_UpsertsOnlyAfterVerification ==
  /\ Cardinality(Lookups) <= 3
  /\ \A u \in Upserts : \E k \in Lookups : k < u /\ Ok(wire[k].answer)
  /\ Cardinality({k \in Lookups : FailedFetch(k)}) = 3 =>
       /\ pc = "failed"
       /\ Upserts = {}
       /\ store = store0

\* the third lookup succeeded after two failures and a file was written
C28_Witness ==
  /\ Cardinality(Lookups) = 3
  /\ \E u \in Upserts : wire[u].request = "PUT contents" /\ Ok(wire[u].answer)
  /\ store # store0

(* ------------------------------ C30 ----------------------------------- *)

\* the step sends a batch for the first time, and it is not the first batch
NextBatchSent ==
  /\ batches # <<>>
  /\ Len(batches') = Len(batches) + 1
  /\ batches'[Len(batches')].attempt = 1

\* C30: a batch other than the first is sent by the timer of the pause,
\* whether the batch before it was completed by its first or by its second
\* sending; the loop pauses only while files remain beyond the batch it has
\* completed, and only once every upsert of that batch has returned.
C30_PauseBetweenBatches ==
  [][/\ NextBatchSent => pc = "pause"
     /\ pc' = "pause" =>
          /\ i' + BATCH_SIZE < Len(allFiles')
          /\ AllFulfilled(task', i')]_vars

(* ------------------------------ C31 ----------------------------------- *)

\* the job has reported its outcome
Terminal == pc \in {"success", "failed"}

\* the place of a control point before the publication in the order the
\* requests are sent: probe, download, existence check, creation, re-check
Order(p) ==
  CASE p = "received" -> 0
    [] p = "probe" -> 1
    [] p = "download" -> 2
    [] p = "lookup" -> 3
    [] p = "create" -> 4
    [] p = "verify" -> 5
    [] OTHER -> 6

\* the requests a callback of uploadFileBatch may still have answered: the
\* create, the read and the update
Remaining(t) ==
  CASE t.pc = "put1" -> 3
    [] t.pc = "get" -> 2
    [] t.pc = "put2" -> 1
    [] OTHER -> 0

RECURSIVE SumRemaining(_)
SumRemaining(calls) ==
  IF calls = <<>> THEN 0 ELSE Remaining(Head(calls)) + SumRemaining(Tail(calls))

\* the answers file f may still receive if it is sent in two batch attempts
FileBudget(f) == 3 * (2 - Len(task[f])) + SumRemaining(task[f])

RECURSIVE SumBudget(_)
SumBudget(f) == IF f = 0 THEN 0 ELSE FileBudget(f) + SumBudget(f - 1)

\* the timers the batch loop may still set: one per batch that is not
\* completed, the pause or the backoff
TimerBudget ==
  IF Terminal THEN 0
  ELSE CeilDiv(N - i, BATCH_SIZE) - (IF pc = "batch" /\ attempt = 2 THEN 1 ELSE 0)

\* An upper bound on the steps the job and its callbacks can still take.
\* Before the publication: the answers up to the re-check, and for each
\* regular file of the archive six answers and at most one timer.
Rank ==
  IF Order(pc) < 6
  THEN (6 - Order(pc)) + 7 * Len(collectFiles(archive.items, <<>>))
  ELSE SumBudget(Len(task)) + TimerBudget

\* the step handles the answer to a request sent before the publication:
\* that request is not sent again
SentOnce == Order(pc) < 6 => Order(pc') > Order(pc)

\* the callbacks that exist stay and each moves on to its next request or
\* ends: a callback sends at most a create, a read and an update
CallbacksAdvance ==
  /\ Len(task') >= Len(task)
  /\ \A f \in 1..Len(task) :
       /\ Len(task'[f]) >= Len(task[f])
       /\ \A k \in 1..Len(task[f]) :
            \/ task'[f][k] = task[f][k]
            \/ Remaining(task'[f][k]) < Remaining(task[f][k])

\* C31: a job that has not reported its outcome always waits for an answer
\* or a timer, and every answer and every timer lowers a bound on the
\* steps that are left, so a job whose requests are all answered reaches
\* success or failure.  The probe, the download, the existence check, the
\* creation and the re-check are each sent at most once, a file is sent in
\* at most two calls of uploadFileBatch, and each callback sends at most
\* three requests, one after the other.
C31_JobEndsWithBoundedRequests ==
  /\ [](Terminal \/ ENABLED <<Next>>_vars)
  /\ [](Rank \in Nat)
  /\ [][Rank' < Rank /\ SentOnce /\ CallbacksAdvance]_vars
  /\ [](\A f \in 1..Len(task) : Len(task[f]) <= 2)

\* a job ended after a batch was sent a second time because the update of
\* a callback, its third request, was refused
C31_Witness ==
  /\ Terminal
  /\ \E f \in 1..Len(task) :
       /\ Len(task[f]) = 2
       /\ task[f][1].pc = "failed"
       /\ task[f][1].existingFile # NoResponse

(* ------------------------------ C32 ----------------------------------- *)

\* C32: once a job has reported a failure, no step of it sends a request
\* to the contents endpoint and no step changes the files of the
\* repository: upserts of the failed batch that were in flight when the
\* failure was reported create or update nothing.
C32_NothingAfterFailure ==
  [][pc = "failed" => (~UpsertIssued /\ store' = store)]_vars

(* ------------------------------ C33 ----------------------------------- *)

\* C33: whenever the creation request of createRepoIfNotExists succeeds,
\* the repository that came into being is the one of the account named by
\* the job's username, the one that was looked up before and that the
\* files are then sent to, also when the identity probe was rate limited.
C33_CreatedAtJobCoordinate ==
  [][(pc = "create" /\ repos' # repos)
       => repos' = repos \cup {ToLower(mySbMsg.username)}]_vars

(* ------------------------------ C34 ----------------------------------- *)

\* the path has a segment, between slashes, that is the given name
HasSegment(path, name) ==
  \E a \in 1..Len(path) :
    LET b == a + Len(name) - 1
    IN /\ b <= Len(path)
       /\ SubSeq(path, a, b) = name
       /\ a = 1 \/ path[a - 1] = "/"
       /\ b = Len(path) \/ path[b + 1] = "/"

\* C34 as stated: no file whose path relative to the working directory
\* has a segment .github, at whatever depth, is accepted by the contents
\* endpoint.
C34_NoDotGithubUpserted ==
  \A f \in Files : \A k \in Calls(f) :
    Written(task[f][k]) => ~HasSegment(allFiles[f].relativePath, DOT_GITHUB)

\* the first segment of the path is the given name
StartsWithSegment(path, name) ==
  /\ Len(path) >= Len(name)
  /\ SubSeq(path, 1, Len(name)) = name
  /\ Len(path) = Len(name) \/ path[Len(name) + 1] = "/"

\* C34, amended: no file that lies under the entry .github directly in the
\* working directory is collected or sent to the contents endpoint; the
\* files the job sends are the regular files of the content root outside
\* that entry, those under a deeper .github included.
C34_NoTopLevelDotGithubUpserted ==
  /\ \A f \in 1..Len(allFiles) :
       ~StartsWithSegment(allFiles[f].relativePath, DOT_GITHUB)
  /\ \A f \in Files :
       /\ task[f] # <<>> => ~StartsWithSegment(allFiles[f].relativePath, DOT_GITHUB)
       /\ allFiles[f].relativePath \in
            {q \in RegularFilePaths(ContentRoot(archive).items, <<>>) :
               ~StartsWithSegment(q, DOT_GITHUB)}

\* the content root held .github/w beside other files: the job succeeded
\* and wrote the other files only
C34_Witness ==
  /\ pc = "success"
  /\ archive = WrappedTree
  /\ DOMAIN store = {<<"R">>, <<"s", "/", "j">>}
  /\ \A f \in Files : Written(task[f][Len(task[f])])

(* ------------------------------ C35 ----------------------------------- *)

\* C35: a repository name the validator of the intake endpoint accepts is
\* accepted by the validator of the queue processor as well: the processor
\* does not fail a message on a name the endpoint would enqueue.
C35_IntakeAcceptedIsWorkerAccepted ==
  (pc # "received" /\ validateRepoName(Str(mySbMsg.repoName)).isValid)
    => /\ pc # "failed"
       /\ validateRepositoryName(
            validateRepoName(Str(mySbMsg.repoName)).sanitized).ok

(* ------------------------------ C36 ----------------------------------- *)

\* C36: the token in an enqueued message is the token stored in the row of
\* the account the request names in username, so requests that name
\* different accounts are enqueued with the tokens of those accounts and
\* never with the token of another one.
C36_TokenOfNamedAccount ==
  \A k \in 1..Len(queue) :
    \E row \in github :
      /\ row.username = queue[k].username.text
      /\ row.token = queue[k].authToken

(* ------------------------------ C37 ----------------------------------- *)

\* the callback exchanged its code for a token and learnt the login
LoggedIn ==
  /\ Len(wire) >= 2
  /\ ~wire[1].answer.threw /\ wire[1].answer.access_token # <<>>
  /\ ~wire[2].answer.threw /\ wire[2].answer.login # <<>>

\* C37: whatever the table holds, a callback that exchanged its code for a
\* token and learnt the login ends with the redirect 302, the table then
\* holds exactly one row of that login, with the new token, and the rows
\* of the other logins are as they were.
C37_LoginStoresToken ==
  [][(pc' = "responded" /\ pc # "responded" /\ LoggedIn')
       => /\ res'.status = 302
          /\ \E row \in github' :
               /\ row.username = userLogin' /\ row.token = tokenValue'
               /\ \A other \in github' :
                    other.username = userLogin' => other = row
          /\ \A row \in github : row.username # userLogin' => row \in github']_vars

(* ------------------------------ C38 ----------------------------------- *)

\* the store the sequential strategy leaves when each of its requests is
\* answered from the store: uploadDirectory awaits uploadFile for one file
\* after the other in the order of the walk, and uploadFile sends the file
\* to `${baseUrl}/${relativePath}`, with the sha if the path is there
\* (src/unnamed/part_000, lines 403-511)
RECURSIVE uploadDirectory(_, _)
uploadDirectory(st, files) ==
  IF files = <<>> THEN st
  ELSE uploadDirectory(StoreWrite(st, UrlPath(Head(files).relativePath),
                                  Base64Encode(Head(files).content)),
                       Tail(files))

\* the sequential strategy ended and none of its requests met a fault
SequentialUnfailed ==
  /\ pc = "success"
  /\ \A k \in 1..Len(wire) :
       \/ Ok(wire[k].answer)
       \/ wire[k].request = "GET contents" /\ wire[k].answer.status = 404

\* the sequential strategy leaves the store that uploadDirectory computes
SequentialResult ==
  SequentialUnfailed => store = uploadDirectory(store0, allFiles)

\* no callback of the batched strategy threw: every file was handled by
\* the one callback of its first attempt
NoRequestFailed ==
  \A f \in Files : Len(task[f]) = 1 /\ Written(task[f][1])

\* C38: for the same working directory and the same initial store, a run
\* of the batched create-then-update strategy in which no request failed
\* uploads the paths the sequential strategy uploads and leaves the store
\* the sequential strategy leaves.
C38_StrategiesLeaveTheSameStore ==
  (pc = "success" /\ NoRequestFailed) =>
    /\ allFiles = collectFiles(WorkingDirOf(archive).items, <<>>)
    /\ store = uploadDirectory(store0, allFiles)

(* ------------------------------ C39 ----------------------------------- *)

\* no other file of the job is sent to the URL path of file f
OwnPath(f) ==
  \A g \in Files :
    g # f => UrlPath(allFiles[g].relativePath) # UrlPath(allFiles[f].relativePath)

\* the store refused the write of the retry's callback for file f because
\* the path had changed since the callback read its sha
RetryConflict(f) ==
  /\ Len(task[f]) = 2
  /\ task[f][2].pc = "failed"
  /\ task[f][2].failure.status = 409

====
